---- MODULE Spec2Model ----
(***************************************************************************)
(* FinQAChat: the routing workflow (src/src/workflow.py), the corpus store  *)
(* with its loader, similarity matcher and retrieval                       *)
(* (src/src/finqa_rag.py), and the two tools: the financial context lookup *)
(* and the calculator (src/src/tools.py).                                  *)
(*                                                                         *)
(* The specifications of the module:                                       *)
(*   Spec / FairSpec  the routing workflow run by several sessions,        *)
(*   SimSpec          calculate_similarity applied to a pair of strings,   *)
(*   RagSpec          find_similar_query and financial_context_lookup      *)
(*                    applied to a corpus, call after call,                *)
(*   LookupSpec       financial_context_lookup applied to corpora of       *)
(*                    well-formed and malformed records,                   *)
(*   LoadSpec         _load_dataset applied to a dataset file,             *)
(*   CalcSpec         calculator applied to an expression.                 *)
(***************************************************************************)
EXTENDS Integers, Sequences, FiniteSets, TLC

VARIABLES
    state,      \* thread id -> WorkflowState kept by the compiled graph
    pc,         \* session -> node the session's run is at ("idle" before a run)
    turn,       \* session -> number of queries the session has submitted
    runInput,   \* session -> message history the current run started with
    trace,      \* session -> the stage invocations of the current run, in order
    q1, q2,     \* the two arguments of calculate_similarity
    simPc,      \* "call" before calculate_similarity has run, "done" after
    simScore,   \* the score calculate_similarity returned
    dataset,    \* FinancialRAGSystem.dataset
    user_query, \* argument of find_similar_query
    top_k,      \* argument of find_similar_query
    ragPc,      \* "call" before find_similar_query has run, "done" after
    found,      \* the list find_similar_query returned
    lookPc,     \* "call" before financial_context_lookup has run, "done" after
    lookResult, \* what financial_context_lookup did: the text it returned
    file,       \* the dataset file _load_dataset reads
    loadPc,     \* "call" before _load_dataset has run, "done" after
    loaded,     \* what _load_dataset did: the list it returned, or the raise
    expression, \* argument of calculator
    calcPc,     \* "call" before calculator has run, "done" after
    calcResult, \* what calculator did: the text it returned
    evalArg     \* whether calculator reached eval, and with which text

wfVars  == <<state, pc, turn, runInput, trace>>
simVars == <<q1, q2, simPc, simScore>>
ragVars == <<dataset, user_query, top_k, ragPc, found>>
lookVars == <<lookPc, lookResult>>
loadVars == <<file, loadPc, loaded>>
calcVars == <<expression, calcPc, calcResult, evalArg>>
toolVars == <<lookPc, lookResult, file, loadPc, loaded,
              expression, calcPc, calcResult, evalArg>>
vars    == <<state, pc, turn, runInput, trace, q1, q2, simPc, simScore,
             dataset, user_query, top_k, ragPc, found,
             lookPc, lookResult, file, loadPc, loaded,
             expression, calcPc, calcResult, evalArg>>

\* The parts a specification leaves out stay as they are here.
\* What a call did: it returned a text, or an exception left it.
Returned(text) == [raised |-> FALSE, text |-> text]
Raised(what)   == [raised |-> TRUE, text |-> what]

LookIdle ==
    /\ lookPc = "off"
    /\ lookResult = Returned(<<>>)

LoadIdle ==
    /\ file = [kind |-> "missing"]
    /\ loadPc = "off"
    /\ loaded = [raised |-> FALSE, data |-> <<>>]

NotEvaluated == [reached |-> FALSE, text |-> <<>>]

CalcIdle ==
    /\ expression = <<>>
    /\ calcPc = "off"
    /\ calcResult = Returned(<<>>)
    /\ evalArg = NotEvaluated

ToolsIdle == LookIdle /\ LoadIdle /\ CalcIdle

(***************************************************************************)
(* Bounds.                                                                 *)
(***************************************************************************)
MaxTurns == 2

(***************************************************************************)
(* Text.  A text is a sequence of tokens; its value is the concatenation   *)
(* of the tokens.  The hand-off marker is the two adjacent tokens          *)
(* NEED_MATH and _CALCULATION, so that "contains the marker" is a real     *)
(* substring search and not a flag.                                        *)
(***************************************************************************)
Marker == <<"NEED_MATH", "_CALCULATION">>

\* Python's `needle in haystack` on str: needle occurs as a contiguous run.
Contains(needle, haystack) ==
    \E i \in 0..(Len(haystack) - Len(needle)) :
        \A d \in 1..Len(needle) : haystack[i + d] = needle[d]

\* What a stage's final message can say.
ReplyTexts ==
    { <<>>,
      <<"ok">>,
      Marker,
      <<"ok">> \o Marker \o <<"ok">>,
      <<"_CALCULATION", "NEED_MATH">>,
      <<"NEED_MATH", "ok", "_CALCULATION">>,
      <<"need_math_calculation">> }

\* What str(e) of an exception raised by a stage can say.
ErrorTexts == { <<"timeout">>, <<"saw ">> \o Marker }

\* What the user can ask.
QueryTexts == { <<"ok">>, <<"please ">> \o Marker }

\* A stage invocation either returns a final reply (the content of the last
\* message of the result, the empty text when the result has no message) or
\* raises an Exception, which is what the nodes' handlers catch.
Outcomes ==
    [kind : {"reply"}, text : ReplyTexts] \cup [kind : {"raise"}, text : ErrorTexts]

Sessions == {"s1", "s2"}

UserMessage(text)      == [role |-> "user", content |-> text]
AssistantMessage(text) == [role |-> "assistant", content |-> text]

\* WorkflowState(): messages given by the caller, next_agent defaulted.
WorkflowState(messages, next_agent) ==
    [messages |-> messages, next_agent |-> next_agent]

(***************************************************************************)
(* The two nodes, as functions of the state they are given and of what     *)
(* the agent invocation did.                                               *)
(***************************************************************************)
financial_node_never_routes(st, out) ==
    IF out.kind = "reply"
    THEN WorkflowState(Append(st.messages, AssistantMessage(out.text)), "END")
    ELSE WorkflowState(
            Append(st.messages,
                   AssistantMessage(<<"Financial agent error: ">> \o out.text)),
            "END")

financial_node_always_routes(st, out) ==
    IF out.kind = "reply"
    THEN WorkflowState(Append(st.messages, AssistantMessage(out.text)),
                       "math_expert")
    ELSE WorkflowState(
            Append(st.messages,
                   AssistantMessage(<<"Financial agent error: ">> \o out.text)),
            "END")

financial_node_routes_on_error(st, out) ==
    LET text == IF out.kind = "reply"
                THEN out.text
                ELSE <<"Financial agent error: ">> \o out.text
    IN  WorkflowState(Append(st.messages, AssistantMessage(text)),
                      IF Contains(Marker, text) THEN "math_expert" ELSE "END")

financial_node_silent_error(st, out) ==
    IF out.kind = "reply"
    THEN WorkflowState(Append(st.messages, AssistantMessage(out.text)),
                       IF Contains(Marker, out.text) THEN "math_expert" ELSE "END")
    ELSE WorkflowState(st.messages, "END")

\* A research node that would look for the marker in the whole history, the
\* user's query included, instead of in the reply alone.
financial_node_searches_history(st, out) ==
    IF out.kind = "reply"
    THEN LET new_messages == Append(st.messages, AssistantMessage(out.text))
         IN  WorkflowState(new_messages,
                IF \E i \in 1..Len(new_messages) :
                       Contains(Marker, new_messages[i].content)
                THEN "math_expert" ELSE "END")
    ELSE WorkflowState(
            Append(st.messages,
                   AssistantMessage(<<"Financial agent error: ">> \o out.text)),
            "END")

financial_node(st, out) ==
    IF out.kind = "reply"
    THEN LET response_content == out.text
             new_messages == Append(st.messages, AssistantMessage(response_content))
         IN  IF Contains(Marker, response_content)
             THEN WorkflowState(new_messages, "math_expert")
             ELSE WorkflowState(new_messages, "END")
    ELSE LET error_msg == <<"Financial agent error: ">> \o out.text
             new_messages == Append(st.messages, AssistantMessage(error_msg))
         IN  WorkflowState(new_messages, "END")

math_node_overwrites_on_error(st, out) ==
    IF out.kind = "reply"
    THEN WorkflowState(Append(st.messages, AssistantMessage(out.text)), "END")
    ELSE WorkflowState(
            SubSeq(st.messages, 1, Len(st.messages) - 1)
                \o <<AssistantMessage(<<"Math agent error: ">> \o out.text)>>,
            "END")

math_node(st, out) ==
    IF out.kind = "reply"
    THEN LET response_content == out.text
             new_messages == Append(st.messages, AssistantMessage(response_content))
         IN  WorkflowState(new_messages, "END")
    ELSE LET error_msg == <<"Math agent error: ">> \o out.text
             new_messages == Append(st.messages, AssistantMessage(error_msg))
         IN  WorkflowState(new_messages, "END")

route_next(st) == st.next_agent

\* add_conditional_edges: the node that runs after financial_research_expert.
AfterFinancial(st) ==
    CASE route_next(st) = "math_expert" -> "math_expert"
      [] route_next(st) = "END"         -> "END"

\* The config both nodes hand to their agent: {"configurable": {"thread_id":
\* "workflow"}}, whatever session the run belongs to.
AgentThreadId(s) == "workflow"

\* Every caller draws a fresh uuid4 as the thread id of its session.
SharedThreadId(s) == "s1"

ThreadId(s) == s

ThreadIds == { ThreadId(s) : s \in Sessions }

(***************************************************************************)
(* The workflow's actions.                                                 *)
(***************************************************************************)
WfInit ==
    /\ state = [t \in ThreadIds |-> WorkflowState(<<>>, "financial_research_expert")]
    /\ pc = [s \in Sessions |-> "idle"]
    /\ turn = [s \in Sessions |-> 0]
    /\ runInput = [s \in Sessions |-> <<>>]
    /\ trace = [s \in Sessions |-> <<>>]

\* app.stream({"messages": [user message]}, config): the input overwrites the
\* messages channel of the session's thread (the field declares no reducer),
\* and the START edge leads to financial_research_expert.
Submit(s, q) ==
    /\ pc[s] \in {"idle", "END"}
    /\ turn[s] < MaxTurns
    /\ state' = [state EXCEPT ![ThreadId(s)].messages = <<UserMessage(q)>>]
    /\ pc' = [pc EXCEPT ![s] = "financial_research_expert"]
    /\ turn' = [turn EXCEPT ![s] = @ + 1]
    /\ runInput' = [runInput EXCEPT ![s] = <<UserMessage(q)>>]
    /\ trace' = [trace EXCEPT ![s] = <<>>]
    /\ UNCHANGED <<simVars, ragVars, toolVars>>

FinancialNode(s) ==
    /\ pc[s] = "financial_research_expert"
    /\ \E out \in Outcomes :
        LET st  == state[ThreadId(s)]
            new == financial_node(st, out)
        IN  /\ state' = [state EXCEPT ![ThreadId(s)] = new]
            /\ pc' = [pc EXCEPT ![s] = AfterFinancial(new)]
            /\ trace' = [trace EXCEPT ![s] =
                    Append(@, [stage |-> "financial_research_expert",
                               thread_id |-> AgentThreadId(s),
                               given |-> st.messages, out |-> out])]
    /\ UNCHANGED <<turn, runInput, simVars, ragVars, toolVars>>

MathNode(s) ==
    /\ pc[s] = "math_expert"
    /\ \E out \in Outcomes :
        LET st  == state[ThreadId(s)]
            new == math_node(st, out)
        IN  /\ state' = [state EXCEPT ![ThreadId(s)] = new]
            /\ pc' = [pc EXCEPT ![s] = "END"]
            /\ trace' = [trace EXCEPT ![s] =
                    Append(@, [stage |-> "math_expert",
                               thread_id |-> AgentThreadId(s),
                               given |-> st.messages, out |-> out])]
    /\ UNCHANGED <<turn, runInput, simVars, ragVars, toolVars>>

(***************************************************************************)
(* Similarity Matcher: strings are sequences of characters.                *)
(***************************************************************************)
MaxStrLen == 3

\* The characters the query strings are drawn from.
Alphabet == {"a", "b", "A", "sz"}

\* str.lower(), character by character.
UpperLetters ==
    <<"A", "B", "C", "D", "E", "F", "G", "H", "I", "J", "K", "L", "M",
      "N", "O", "P", "Q", "R", "S", "T", "U", "V", "W", "X", "Y", "Z">>

LowerLetters ==
    <<"a", "b", "c", "d", "e", "f", "g", "h", "i", "j", "k", "l", "m",
      "n", "o", "p", "q", "r", "s", "t", "u", "v", "w", "x", "y", "z">>

LowerChar(c) ==
    IF \E i \in 1..Len(UpperLetters) : UpperLetters[i] = c
    THEN LowerLetters[CHOOSE i \in 1..Len(UpperLetters) : UpperLetters[i] = c]
    ELSE c

lower_identity(s) == s

lower(s) == [i \in 1..Len(s) |-> LowerChar(s[i])]

\* str.upper(), character by character; the sharp s has no single upper-case
\* character and becomes SS.  "sz" stands for that character (U+00DF).
UpperChar(c) ==
    CASE c = "a" -> <<"A">>
      [] c = "b" -> <<"B">>
      [] c = "s" -> <<"S">>
      [] c = "sz" -> <<"S", "S">>
      [] OTHER   -> <<c>>

RECURSIVE upper(_)
upper(s) == IF s = <<>> THEN <<>> ELSE UpperChar(Head(s)) \o upper(Tail(s))

\* SequenceMatcher.find_longest_match(alo, ahi, blo, bhi) with no junk: the
\* longest block a[i..i+k) = b[j..j+k) inside a[alo..ahi), b[blo..bhi); of
\* the longest blocks the one starting earliest in a, and of those the one
\* starting earliest in b; <<alo, blo, 0>> when no character matches.
\* Indices are 1-based, ranges half-open as in the library.
\* The library's automatic junk heuristic starts at second arguments of 200
\* characters and plays no part for the strings drawn here.
MatchingBlocks(a, b, alo, ahi, blo, bhi) ==
    { m \in (alo..(ahi - 1)) \X (blo..(bhi - 1)) \X (1..(ahi - alo)) :
        /\ m[1] + m[3] <= ahi
        /\ m[2] + m[3] <= bhi
        /\ \A d \in 0..(m[3] - 1) : a[m[1] + d] = b[m[2] + d] }

find_longest_match(a, b, alo, ahi, blo, bhi) ==
    LET blocks == MatchingBlocks(a, b, alo, ahi, blo, bhi)
    IN  IF blocks = {}
        THEN <<alo, blo, 0>>
        ELSE CHOOSE m \in blocks :
                \A n \in blocks :
                    \/ m[3] > n[3]
                    \/ m[3] = n[3] /\ m[1] < n[1]
                    \/ m[3] = n[3] /\ m[1] = n[1] /\ m[2] <= n[2]

\* SequenceMatcher.get_matching_blocks: the longest match, then the same to
\* its left and to its right; the sum of the block sizes.
RECURSIVE MatchCount(_, _, _, _, _, _)
MatchCount(a, b, alo, ahi, blo, bhi) ==
    LET m == find_longest_match(a, b, alo, ahi, blo, bhi)
        i == m[1]
        j == m[2]
        k == m[3]
    IN  IF k = 0
        THEN 0
        ELSE k
             + (IF alo < i /\ blo < j
                THEN MatchCount(a, b, alo, i, blo, j) ELSE 0)
             + (IF i + k < ahi /\ j + k < bhi
                THEN MatchCount(a, b, i + k, ahi, j + k, bhi) ELSE 0)

\* A score is the fraction num/den, den > 0.  The library computes the
\* double 2.0 * matches / length; two such quotients of lengths this small
\* are equal or ordered as doubles exactly as they are as fractions.
Score(num, den) == [num |-> num, den |-> den]

ScoreEq(x, y) == x.num * y.den = y.num * x.den
ScoreGe(x, y) == x.num * y.den >= y.num * x.den
ScoreOne  == Score(1, 1)
ScoreZero == Score(0, 1)

\* SequenceMatcher.ratio(): 2.0 * matches / (len(a) + len(b)), 1.0 when both
\* are empty.
ratio_over_first_length(a, b) ==
    IF Len(a) = 0
    THEN ScoreOne
    ELSE Score(2 * MatchCount(a, b, 1, Len(a) + 1, 1, Len(b) + 1), Len(a))

ratio(a, b) ==
    LET matches == MatchCount(a, b, 1, Len(a) + 1, 1, Len(b) + 1)
        length  == Len(a) + Len(b)
    IN  IF length = 0 THEN ScoreOne ELSE Score(2 * matches, length)

calculate_similarity_second_not_lowered(query1, query2) ==
    ratio(lower(query1), query2)

calculate_similarity_first_not_lowered(query1, query2) ==
    ratio(query1, lower(query2))

calculate_similarity(query1, query2) == ratio(lower(query1), lower(query2))

RECURSIVE StringsOfLen(_)
StringsOfLen(n) ==
    IF n = 0
    THEN { <<>> }
    ELSE { Append(s, c) : s \in StringsOfLen(n - 1), c \in Alphabet }

Strings == UNION { StringsOfLen(n) : n \in 0..MaxStrLen }

NoScore == Score(0, 0)

SimIdle ==
    /\ q1 = <<>>
    /\ q2 = <<>>
    /\ simPc = "off"
    /\ simScore = NoScore

SimInit ==
    /\ q1 \in Strings
    /\ q2 \in Strings
    /\ simPc = "call"
    /\ simScore = NoScore

CalculateSimilarity ==
    /\ simPc = "call"
    /\ simScore' = calculate_similarity(q1, q2)
    /\ simPc' = "done"
    /\ UNCHANGED <<q1, q2, wfVars, ragVars, toolVars>>

RagIdle ==
    /\ dataset = <<>>
    /\ user_query = <<>>
    /\ top_k = 0
    /\ ragPc = "off"
    /\ found = <<>>

(***************************************************************************)
(* Corpus store and find_similar_query.                                    *)
(***************************************************************************)
MaxCorpus == 3
MaxK == 3

\* The question texts of the corpus records; the empty string is one of them.
QuestionPool == { <<>>, <<"a", "b">>, <<"b", "a">>, <<"A", "b">> }

QueryPool == { <<"a", "b">>, <<"b">>, <<>> }

\* The records that can stand at position n of the corpus: one with no qa,
\* one whose qa has no question, and one per question text.  filename tells
\* the records of a corpus apart.
ItemsAt(n) ==
    { [filename |-> n],
      [qa |-> [answer |-> <<"1">>], filename |-> n] }
    \cup { [qa |-> [question |-> q, answer |-> <<"1">>], filename |-> n] :
            q \in QuestionPool }

RECURSIVE Corpora(_)
Corpora(n) ==
    IF n = 0
    THEN { <<>> }
    ELSE { Append(c, item) : c \in Corpora(n - 1), item \in ItemsAt(n) }

\* 'qa' in item and 'question' in item['qa'] and item['qa']['question']
HasQuestion_any_question(item) ==
    /\ "qa" \in DOMAIN item
    /\ "question" \in DOMAIN item.qa

HasQuestion(item) ==
    /\ "qa" \in DOMAIN item
    /\ "question" \in DOMAIN item.qa
    /\ item.qa.question # <<>>

\* A sort that would put an entry in front of the entries of equal
\* similarity already placed (an unstable order of ties).
InsertDescending_before_ties(sorted, x) ==
    LET before == { i \in 1..Len(sorted) :
                      /\ ScoreGe(sorted[i].similarity, x.similarity)
                      /\ ~ScoreEq(sorted[i].similarity, x.similarity) }
        n == Cardinality(before)
    IN  SubSeq(sorted, 1, n) \o <<x>> \o SubSeq(sorted, n + 1, Len(sorted))

\* list.sort(key=similarity, reverse=True): a stable sort, so each entry goes
\* behind the entries already placed whose similarity is at least its own.
InsertDescending(sorted, x) ==
    LET before == { i \in 1..Len(sorted) : ScoreGe(sorted[i].similarity, x.similarity) }
        n == Cardinality(before)
    IN  SubSeq(sorted, 1, n) \o <<x>> \o SubSeq(sorted, n + 1, Len(sorted))

RECURSIVE SortFrom(_, _)
SortFrom(sorted, rest) ==
    IF rest = <<>>
    THEN sorted
    ELSE SortFrom(InsertDescending(sorted, Head(rest)), Tail(rest))

sort_descending_skipped(similarities) == similarities

sort_descending(similarities) == SortFrom(<<>>, similarities)

\* seq[:k] of Python: the first k entries, and for k < 0 all but the last -k.
SlicePrefix(seq, k) ==
    LET n == Len(seq)
        stop == IF k >= 0
                THEN (IF k < n THEN k ELSE n)
                ELSE (IF n + k > 0 THEN n + k ELSE 0)
    IN  SubSeq(seq, 1, stop)

RECURSIVE Similarities(_, _)
Similarities(data, query) ==
    IF data = <<>>
    THEN <<>>
    ELSE LET item == Head(data)
             rest == Similarities(Tail(data), query)
         IN  IF HasQuestion(item)
             THEN <<[similarity |-> calculate_similarity(query, item.qa.question),
                     item |-> item]>> \o rest
             ELSE rest

find_similar_query(data, query, k) ==
    IF data = <<>>
    THEN <<>>
    ELSE LET similarities == sort_descending(Similarities(data, query))
             kept == SlicePrefix(similarities, k)
         IN  [i \in 1..Len(kept) |-> kept[i].item]

(***************************************************************************)
(* Context formatter and retrieval tool boundary (src/src/tools.py).       *)
(*                                                                         *)
(* Values of the corpus file are JSON values.  A string value is           *)
(* [str |-> text], a number is [int |-> n], a list is [list |-> entries];  *)
(* a record that is not an object but a number is [py |-> "int"].          *)
(***************************************************************************)
Str(text)     == [str |-> text]
Num(n)        == [int |-> n]
List(entries) == [list |-> entries]
NonDictItem   == [py |-> "int"]

IsStr(v)  == "str" \in DOMAIN v
IsInt(v)  == "int" \in DOMAIN v
IsList(v) == "list" \in DOMAIN v
IsDict(item) == "py" \notin DOMAIN item

\* bool(v): the empty string, 0 and the empty list are false.
Truthy(v) ==
    IF IsStr(v) THEN v.str # <<>>
    ELSE IF IsInt(v) THEN v.int # 0
    ELSE v.list # <<>>

\* str(v) of a string or a number.
PyStr(v) == IF IsStr(v) THEN v.str ELSE <<ToString(v.int)>>

\* sep.join(texts)
RECURSIVE Join(_, _)
Join(sep, texts) ==
    IF texts = <<>> THEN <<>>
    ELSE IF Len(texts) = 1 THEN texts[1]
    ELSE texts[1] \o <<sep>> \o Join(sep, Tail(texts))

\* [f(x) for x in entries if x]: the texts of the true entries, in order.
RECURSIVE TextsOfTruthy(_)
TextsOfTruthy(entries) ==
    IF entries = <<>> THEN <<>>
    ELSE IF Truthy(Head(entries))
         THEN <<PyStr(Head(entries))>> \o TextsOfTruthy(Tail(entries))
         ELSE TextsOfTruthy(Tail(entries))

\* item.get(key, default)
Get(item, key, default) == IF key \in DOMAIN item THEN item[key] ELSE default

\* ' '.join(item.get(key, [])) raises TypeError when an entry is no string.
JoinRaises(item, key) ==
    \E i \in 1..Len(Get(item, key, <<>>)) : ~IsStr(Get(item, key, <<>>)[i])

\* The message of that TypeError names the first such entry, counted from 0.
JoinError(item, key) ==
    LET entries == Get(item, key, <<>>)
        first   == CHOOSE i \in 1..Len(entries) :
                       /\ ~IsStr(entries[i])
                       /\ \A j \in 1..(i - 1) : IsStr(entries[j])
    IN  <<"sequence item ", ToString(first - 1), ": expected str instance, int found">>

JoinedText(item, key) ==
    LET entries == Get(item, key, <<>>)
    IN  Join(" ", [i \in 1..Len(entries) |-> entries[i].str])

\* extract_context_from_item with the table taken from 'table' alone.
extract_context_from_item_table_only(item) ==
    LET qa == Get(item, "qa", [none |-> TRUE])
    IN  [ question   |-> Get(qa, "question", <<"N/A">>),
          answer     |-> Get(qa, "answer", <<"N/A">>),
          program    |-> Get(qa, "program", <<"N/A">>),
          pre_text   |-> JoinedText(item, "pre_text"),
          post_text  |-> JoinedText(item, "post_text"),
          table_data |-> Get(item, "table", List(<<>>)),
          filename   |-> Get(item, "filename", <<"Unknown">>) ]

\* extract_context_from_item with the table taken from 'table' when
\* 'table_ori' is missing or empty.
extract_context_from_item_table_when_empty(item) ==
    LET qa == Get(item, "qa", [none |-> TRUE])
        table_ori == Get(item, "table_ori", List(<<>>))
    IN  [ question   |-> Get(qa, "question", <<"N/A">>),
          answer     |-> Get(qa, "answer", <<"N/A">>),
          program    |-> Get(qa, "program", <<"N/A">>),
          pre_text   |-> JoinedText(item, "pre_text"),
          post_text  |-> JoinedText(item, "post_text"),
          table_data |-> IF Truthy(table_ori) THEN table_ori
                         ELSE Get(item, "table", List(<<>>)),
          filename   |-> Get(item, "filename", <<"Unknown">>) ]

extract_context_from_item(item) ==
    LET qa == Get(item, "qa", [none |-> TRUE])
    IN  [ question   |-> Get(qa, "question", <<"N/A">>),
          answer     |-> Get(qa, "answer", <<"N/A">>),
          program    |-> Get(qa, "program", <<"N/A">>),
          pre_text   |-> JoinedText(item, "pre_text"),
          post_text  |-> JoinedText(item, "post_text"),
          table_data |-> Get(item, "table_ori", Get(item, "table", List(<<>>))),
          filename   |-> Get(item, "filename", <<"Unknown">>) ]

\* A row formatter that would keep an empty label instead of 'Row N'.
FormattedRow_without_row_number(i, row) ==
    IF Len(row) > 1
    THEN LET row_values == TextsOfTruthy(Tail(row))
         IN  IF row_values # <<>>
             THEN <<"  * ">> \o PyStr(row[1]) \o <<": ">> \o Join(" | ", row_values) \o <<"\n">>
             ELSE <<>>
    ELSE <<"  * ">> \o Join(" | ", TextsOfTruthy(row)) \o <<"\n">>

\* A row formatter that would render a row of several cells without values
\* as its label alone.
FormattedRow_label_alone(i, row) ==
    IF Len(row) > 1
    THEN LET row_label  == IF Truthy(row[1]) THEN PyStr(row[1])
                           ELSE <<"Row ", ToString(i)>>
             row_values == TextsOfTruthy(Tail(row))
         IN  IF row_values # <<>>
             THEN <<"  * ">> \o row_label \o <<": ">> \o Join(" | ", row_values) \o <<"\n">>
             ELSE <<"  * ">> \o PyStr(row[1]) \o <<"\n">>
    ELSE <<"  * ">> \o Join(" | ", TextsOfTruthy(row)) \o <<"\n">>

\* One row of formatted_table; i is the 1-based row number and "  * " the
\* bullet that opens the line.  A row of more
\* than one cell whose value cells are all false adds nothing.
FormattedRow(i, row) ==
    IF Len(row) > 1
    THEN LET row_label  == IF Truthy(row[1]) THEN PyStr(row[1])
                           ELSE <<"Row ", ToString(i)>>
             row_values == TextsOfTruthy(Tail(row))
         IN  IF row_values # <<>>
             THEN <<"  * ">> \o row_label \o <<": ">> \o Join(" | ", row_values) \o <<"\n">>
             ELSE <<>>
    ELSE <<"  * ">> \o Join(" | ", TextsOfTruthy(row)) \o <<"\n">>

RECURSIVE FormattedRows(_, _)
FormattedRows(i, rows) ==
    IF i > Len(rows) THEN <<>>
    ELSE FormattedRow(i, rows[i]) \o FormattedRows(i + 1, rows)

\* formatted_table of a table_data that is a list.
FormattedTable(table_data) ==
    IF Truthy(table_data)
    THEN <<"\n">> \o FormattedRows(1, table_data.list)
    ELSE <<"No table data available.">>

\* repr of a list of strings and numbers, as the f-string prints header_row.
ListRepr(row) ==
    <<"[">> \o Join(", ", [i \in 1..Len(row) |->
                            IF IsStr(row[i]) THEN <<"'">> \o row[i].str \o <<"'">>
                            ELSE PyStr(row[i])]) \o <<"]">>

\* A year mapping that would be triggered by a year in any row.
YearHeaders_any_row(table_data) ==
    IF Truthy(table_data) /\ Len(table_data.list) > 0
    THEN LET header_row == table_data.list[1]
         IN  IF \E r \in 1..Len(table_data.list) :
                  \E i \in 1..Len(table_data.list[r]) :
                    \/ Contains(<<"2009">>, PyStr(table_data.list[r][i]))
                    \/ Contains(<<"2008">>, PyStr(table_data.list[r][i]))
                    \/ Contains(<<"2007">>, PyStr(table_data.list[r][i]))
             THEN <<"\nYEAR MAPPING FROM TABLE HEADERS: ">> \o ListRepr(header_row)
             ELSE <<>>
    ELSE <<>>

\* year_headers of a table_data that is a list.
YearHeaders(table_data) ==
    IF Truthy(table_data) /\ Len(table_data.list) > 0
    THEN LET header_row == table_data.list[1]
         IN  IF \E i \in 1..Len(header_row) :
                    \/ Contains(<<"2009">>, PyStr(header_row[i]))
                    \/ Contains(<<"2008">>, PyStr(header_row[i]))
                    \/ Contains(<<"2007">>, PyStr(header_row[i]))
             THEN <<"\nYEAR MAPPING FROM TABLE HEADERS: ">> \o ListRepr(header_row)
             ELSE <<>>
    ELSE <<>>

\* The response block of the lookup.
Response(context, query) ==
    <<"CRITICAL DATA EXTRACTION TASK", "REFERENCE ANSWER: ">> \o context.answer
    \o <<" (from dataset)", "REFERENCE CALCULATION: ">> \o context.program
    \o <<" (from dataset)", "EXACT TABLE DATA TO EXTRACT FROM:">>
    \o FormattedTable(context.table_data) \o YearHeaders(context.table_data)
    \o <<"EXTRACTION RULES", "SUPPORTING CONTEXT:", "Pre-text: ">> \o context.pre_text
    \o <<"Post-text: ">> \o context.post_text
    \o <<"USER QUERY: '">> \o query \o <<"'", "BEFORE YOU ANSWER">>

NoSimilarQueries == <<"No similar queries found in the financial dataset.">>

\* top_k of the lookup's call of find_similar_query.
LookupTopK == 3

\* find_similar_query raises TypeError at `'qa' in item` when a record is a
\* number.
FindRaises(data) == \E i \in 1..Len(data) : ~IsDict(data[i])

\* len() and enumerate() of a table_data that is a non-zero number raise
\* TypeError; the number 0 is false and counts as no table.
TableRaises(table_data) == IsInt(table_data) /\ Truthy(table_data)

\* A lookup that would build its response from the last of the matches it
\* asked for instead of the first.
LookupBody_last_match(data, query) ==
    IF FindRaises(data)
    THEN Raised(<<"argument of type 'int' is not iterable">>)
    ELSE LET all_similar_items == find_similar_query(data, query, LookupTopK)
         IN  IF all_similar_items = <<>>
             THEN Returned(NoSimilarQueries)
             ELSE LET best_match_item == all_similar_items[Len(all_similar_items)]
                  IN  IF JoinRaises(best_match_item, "pre_text")
                      THEN Raised(JoinError(best_match_item, "pre_text"))
                      ELSE IF JoinRaises(best_match_item, "post_text")
                      THEN Raised(JoinError(best_match_item, "post_text"))
                      ELSE LET context == extract_context_from_item(best_match_item)
                           IN  IF TableRaises(context.table_data)
                               THEN Raised(<<"object of type 'int' has no len()">>)
                               ELSE Returned(Response(context, query))

\* The body of the try block of financial_context_lookup.
LookupBody(data, query) ==
    IF FindRaises(data)
    THEN Raised(<<"argument of type 'int' is not iterable">>)
    ELSE LET all_similar_items == find_similar_query(data, query, LookupTopK)
         IN  IF all_similar_items = <<>>
             THEN Returned(NoSimilarQueries)
             ELSE LET best_match_item == all_similar_items[1]
                  IN  IF JoinRaises(best_match_item, "pre_text")
                      THEN Raised(JoinError(best_match_item, "pre_text"))
                      ELSE IF JoinRaises(best_match_item, "post_text")
                      THEN Raised(JoinError(best_match_item, "post_text"))
                      ELSE LET context == extract_context_from_item(best_match_item)
                           IN  IF TableRaises(context.table_data)
                               THEN Raised(<<"object of type 'int' has no len()">>)
                               ELSE Returned(Response(context, query))

financial_context_lookup_unguarded(data, query) == LookupBody(data, query)

\* A lookup whose handler would answer with the no-data sentinel.
financial_context_lookup_no_data_on_error(data, query) ==
    LET body == LookupBody(data, query)
    IN  IF body.raised THEN Returned(NoSimilarQueries) ELSE body

\* financial_context_lookup: the try block, and the handler that turns any
\* exception into a text.
financial_context_lookup(data, query) ==
    LET body == LookupBody(data, query)
    IN  IF body.raised
        THEN Returned(<<"Error in financial_context_lookup: ">> \o body.text)
        ELSE body

LookCall ==
    /\ lookPc = "call"
    /\ lookResult = Returned(<<>>)

FinancialContextLookup ==
    /\ lookPc = "call"
    /\ lookResult' = financial_context_lookup(dataset, user_query)
    /\ lookPc' = "done"
    /\ UNCHANGED <<wfVars, simVars, ragVars, loadVars, calcVars>>

\* The question of the built-in sample record; a text is a sequence of
\* tokens, and the two years are tokens of their own.  No character of these
\* tokens occurs in another question or query of the model, so matching
\* token by token and character by character give the same ratio.
SampleQuestion ==
    <<"what was the percentage change in the net cash from operating activities from ",
      "2008", " to ", "2009">>

\* The program of the sample record, its figures as tokens of their own.
SampleProgram ==
    <<"subtract(", "206588", ", ", "181001", "), divide(#0, ", "181001", ")">>

SampleRecord ==
    [ qa        |-> [ question |-> SampleQuestion,
                      answer   |-> <<"14.1%">>,
                      program  |-> SampleProgram ],
      pre_text  |-> <<Str(<<"sample pre text">>)>>,
      post_text |-> <<Str(<<"sample post text">>)>>,
      table     |-> List(<< <<Str(<<"sample">>), Str(<<"table">>), Str(<<"data">>)>> >>),
      table_ori |-> List(<< <<Str(<<"original">>), Str(<<"table">>), Str(<<"format">>)>> >>),
      filename  |-> <<"sample_file.pdf">> ]

_get_sample_data == <<SampleRecord>>

\* A table with a header row of years, a labelled row of figures, a row of
\* empty cells, a row of a single cell and a row with an empty label.
CashTable ==
    List(<< <<Str(<<>>), Str(<<"2009">>), Str(<<"2008">>)>>,
            <<Str(<<"net cash">>), Str(<<"206588">>), Str(<<"181001">>)>>,
            <<Str(<<"total">>), Str(<<>>), Str(<<>>)>>,
            <<Str(<<"in millions">>)>>,
            <<Str(<<>>), Num(7), Num(0)>> >>)

\* A table whose first row names no year and whose second row does, and a
\* table whose first row has a year inside a longer cell.
YearBelowTable ==
    List(<< <<Str(<<"item">>), Str(<<"amount">>)>>,
            <<Str(<<"december 31, ", "2008">>), Str(<<"12">>)>> >>)

YearInsideTable ==
    List(<< <<Str(<<"item">>), Str(<<"december 31, ", "2007", " (restated)">>)>>,
            <<Str(<<"revenue">>), Str(<<"12">>)>> >>)

\* Records the lookup is tried on: well-formed ones with and without fields,
\* and malformed ones (a record that is a number, a table that is a number,
\* cells that are numbers, a pre_text entry that is a number).
LookupItems ==
    { SampleRecord,
      [ qa |-> [ question |-> <<"b", "d">>, answer |-> <<"1">>, program |-> <<"p">> ],
        pre_text |-> <<Str(<<"x">>), Str(<<"y">>)>>,
        table |-> CashTable ],
      [ qa |-> [ question |-> <<"d", "b">> ],
        table |-> CashTable,
        table_ori |-> List(<<>>) ],
      [ qa |-> [ question |-> <<"B", "d">>, answer |-> <<"2">> ],
        table_ori |-> Num(5) ],
      [ qa |-> [ question |-> <<"d">>, answer |-> <<"3">> ],
        table_ori |-> Num(0) ],
      [ qa |-> [ question |-> <<"b">>, answer |-> <<"4">> ],
        post_text |-> <<Str(<<"x">>), Num(1)>> ],
      [ qa |-> [ question |-> <<"B">>, answer |-> <<"7">> ],
        pre_text |-> <<Num(2), Str(<<"x">>)>>,
        table |-> CashTable ],
      [ qa |-> [ question |-> <<"d", "d">>, answer |-> <<"5">> ],
        table_ori |-> List(<< <<Num(2009), Num(0)>>, <<>> >>) ],
      [ qa |-> [ answer |-> <<"6">> ], table |-> CashTable ],
      [ qa |-> [ question |-> <<"d", "B">>, answer |-> <<"10">> ],
        post_text |-> <<Str(<<"z">>)>> ],
      [ qa |-> [ question |-> <<"B", "b">>, answer |-> <<"8">> ],
        table_ori |-> YearBelowTable ],
      [ qa |-> [ question |-> <<"b", "b">>, answer |-> <<"9">> ],
        table |-> YearInsideTable ],
      NonDictItem }

MaxLookupCorpus == 3

RECURSIVE LookupCorpora(_)
LookupCorpora(n) ==
    IF n = 0
    THEN { <<>> }
    ELSE { Append(c, item) : c \in LookupCorpora(n - 1), item \in LookupItems }

LookupQueries == { SampleQuestion, <<"b", "d">>, <<"d">> }

LookupInit ==
    /\ dataset \in UNION { LookupCorpora(n) : n \in 0..MaxLookupCorpus }
    /\ user_query \in LookupQueries
    /\ top_k = 0
    /\ ragPc = "off"
    /\ found = <<>>
    /\ LookCall

(***************************************************************************)
(* Corpus loader (src/src/finqa_rag.py, _load_dataset).                    *)
(*                                                                         *)
(* The dataset file is missing, or cannot be opened for want of            *)
(* permission, or holds bytes that are no UTF-8, or holds lines of text.   *)
(* A line is blank, or the text of an array (it starts with '['), or of    *)
(* another JSON value, or no JSON at all; an array whose text is no JSON   *)
(* is a bad array.                                                         *)
(***************************************************************************)
BlankLine        == [blank |-> TRUE]
BadLine          == [bad |-> "line"]
BadArrayLine     == [bad |-> "array"]
ValueLine(value) == [json |-> value]
ArrayLine(items) == [array |-> items]

IsBlank(line)     == "blank" \in DOMAIN line
IsBad(line)       == "bad" \in DOMAIN line
IsArrayText(line) == "array" \in DOMAIN line \/ line = BadArrayLine

\* A record with a question, as one line of a JSON-lines file holds it.
PlainRecord == [ qa |-> [ question |-> <<"b", "d">>, answer |-> <<"1">> ] ]

\* An array that json.loads put into the list as one record.
ListItem == [py |-> "list"]

LineKinds ==
    { BlankLine, BadLine, BadArrayLine,
      ValueLine(PlainRecord), ValueLine(NonDictItem),
      ArrayLine(<<>>), ArrayLine(<<PlainRecord>>) }

MaxLines == 3

RECURSIVE LinesOfLen(_)
LinesOfLen(n) ==
    IF n = 0
    THEN { <<>> }
    ELSE { Append(ls, l) : ls \in LinesOfLen(n - 1), l \in LineKinds }

Files ==
    { [kind |-> "missing"], [kind |-> "unreadable"], [kind |-> "not_utf8"] }
    \cup { [kind |-> "text", lines |-> ls] :
            ls \in UNION { LinesOfLen(n) : n \in 0..MaxLines } }

\* str.strip() of the content: blank lines at either end go.
RECURSIVE StripLeft(_)
StripLeft(lines) ==
    IF lines # <<>> /\ IsBlank(Head(lines)) THEN StripLeft(Tail(lines)) ELSE lines

RECURSIVE StripRight(_)
StripRight(lines) ==
    IF lines # <<>> /\ IsBlank(lines[Len(lines)])
    THEN StripRight(SubSeq(lines, 1, Len(lines) - 1))
    ELSE lines

Strip(lines) == StripRight(StripLeft(lines))

Loaded(data)      == [raised |-> FALSE, data |-> data]
LoadRaised(what)  == [raised |-> TRUE, data |-> <<what>>]

\* json.loads(content) of a content that starts with '[': the array when
\* the content is that array alone, JSONDecodeError otherwise.
LoadsContent(content) ==
    IF Len(content) = 1 /\ "array" \in DOMAIN content[1]
    THEN Loaded(content[1].array)
    ELSE LoadRaised("JSONDecodeError")

\* json.loads(line) of one non-blank line.
LoadsLine(line) ==
    IF IsBad(line) THEN LoadRaised("JSONDecodeError")
    ELSE IF "array" \in DOMAIN line THEN Loaded(ListItem)
    ELSE Loaded(line.json)

\* The loop over content.split('\n'): blank lines are skipped, every other
\* line is parsed and appended; the first line that fails to parse ends it.
RECURSIVE LoadLines(_, _)
LoadLines(lines, data) ==
    IF lines = <<>> THEN Loaded(data)
    ELSE IF IsBlank(Head(lines)) THEN LoadLines(Tail(lines), data)
    ELSE IF LoadsLine(Head(lines)).raised THEN LoadsLine(Head(lines))
    ELSE LoadLines(Tail(lines), Append(data, LoadsLine(Head(lines)).data))

\* The try block of _load_dataset.
LoadBody(f) ==
    IF f.kind = "missing" THEN LoadRaised("FileNotFoundError")
    ELSE IF f.kind = "unreadable" THEN LoadRaised("PermissionError")
    ELSE IF f.kind = "not_utf8" THEN LoadRaised("UnicodeDecodeError")
    ELSE LET content == Strip(f.lines)
         IN  IF content = <<>> THEN Loaded(_get_sample_data)
             ELSE IF IsArrayText(content[1]) THEN LoadsContent(content)
             ELSE LoadLines(content, <<>>)

\* _load_dataset: the handlers take FileNotFoundError and JSONDecodeError;
\* any other exception leaves the call.
_load_dataset(f) ==
    LET body == LoadBody(f)
    IN  IF body.raised /\ body.data \in { <<"FileNotFoundError">>, <<"JSONDecodeError">> }
        THEN Loaded(_get_sample_data)
        ELSE body

LoadInit ==
    /\ file \in Files
    /\ loadPc = "call"
    /\ loaded = Loaded(<<>>)

LoadDataset ==
    /\ loadPc = "call"
    /\ loaded' = _load_dataset(file)
    /\ loadPc' = "done"
    /\ UNCHANGED <<file, wfVars, simVars, ragVars, lookVars, calcVars>>

(***************************************************************************)
(* Calculator (src/src/tools.py, calculator).  An expression is a sequence *)
(* of characters.                                                          *)
(***************************************************************************)
IsAlphaChar(c) ==
    \E i \in 1..Len(LowerLetters) : c = LowerLetters[i] \/ c = UpperLetters[i]

IsDigitChar(c) == c \in {"0", "1", "2", "3", "4", "5", "6", "7", "8", "9"}

IsSpaceChar(c) == c \in {" ", "\t", "\n"}

\* \w of the regular expressions
IsWordChar(c) == IsAlphaChar(c) \/ IsDigitChar(c) \/ c = "_"

\* str.strip()
RECURSIVE StripText(_)
StripText(s) ==
    IF s = <<>> THEN s
    ELSE IF IsSpaceChar(Head(s)) THEN StripText(Tail(s))
    ELSE IF IsSpaceChar(s[Len(s)]) THEN StripText(SubSeq(s, 1, Len(s) - 1))
    ELSE s

\* str.replace(old, new): the occurrences of old from the left, none
\* overlapping another.
RECURSIVE Replace(_, _, _)
Replace(s, old, new) ==
    IF Len(s) < Len(old) THEN s
    ELSE IF SubSeq(s, 1, Len(old)) = old
         THEN new \o Replace(SubSeq(s, Len(old) + 1, Len(s)), old, new)
         ELSE <<Head(s)>> \o Replace(Tail(s), old, new)

\* str(math.pi) and str(math.e)
PiText == <<"3", ".", "1", "4", "1", "5", "9", "2", "6", "5", "3", "5", "8", "9", "7", "9", "3">>
EText  == <<"2", ".", "7", "1", "8", "2", "8", "1", "8", "2", "8", "4", "5", "9", "0", "4", "5">>

\* Lines 17-19: strip, lower, then pi and e give way to their digits.
Normalize(expr) ==
    Replace(Replace(lower(StripText(expr)), <<"p", "i">>, PiText), <<"e">>, EText)

\* re.search(r'__\w+__', s)
MatchesDunder(s) ==
    \E i \in 1..Len(s), j \in 1..Len(s) :
        /\ j >= i + 4
        /\ s[i] = "_" /\ s[i + 1] = "_"
        /\ s[j - 1] = "_" /\ s[j] = "_"
        /\ \A k \in i..j : IsWordChar(s[k])

\* re.search(word + r'\s+', s)
MatchesThenSpace(s, word) ==
    \E i \in 1..Len(s) :
        /\ i + Len(word) <= Len(s)
        /\ SubSeq(s, i, i + Len(word) - 1) = word
        /\ IsSpaceChar(s[i + Len(word)])

\* re.search(word + r'\s*\(', s)
MatchesCall(s, word) ==
    \E i \in 1..Len(s), j \in 1..Len(s) :
        /\ j >= i + Len(word)
        /\ SubSeq(s, i, i + Len(word) - 1) = word
        /\ \A k \in (i + Len(word))..(j - 1) : IsSpaceChar(s[k])
        /\ s[j] = "("

\* Some pattern of dangerous_patterns is found in s.
IsDangerous(s) ==
    \/ MatchesDunder(s)
    \/ MatchesThenSpace(s, <<"i", "m", "p", "o", "r", "t">>)
    \/ MatchesCall(s, <<"e", "x", "e", "c">>)
    \/ MatchesCall(s, <<"e", "v", "a", "l">>)
    \/ MatchesCall(s, <<"o", "p", "e", "n">>)
    \/ MatchesCall(s, <<"i", "n", "p", "u", "t">>)

\* The keys of safe_dict that are removed for the check of letters, in the
\* order of the dictionary, and then the constants.
RemovedNames ==
    << <<"a", "b", "s">>, <<"r", "o", "u", "n", "d">>, <<"m", "i", "n">>,
       <<"m", "a", "x">>, <<"s", "u", "m">>, <<"s", "q", "r", "t">>,
       <<"s", "i", "n">>, <<"c", "o", "s">>, <<"t", "a", "n">>,
       <<"a", "s", "i", "n">>, <<"a", "c", "o", "s">>, <<"a", "t", "a", "n">>,
       <<"l", "o", "g">>, <<"l", "o", "g", "1", "0">>, <<"e", "x", "p">>,
       <<"p", "o", "w">>, <<"f", "l", "o", "o", "r">>, <<"c", "e", "i", "l">>,
       <<"p", "i">>, <<"e">> >>

RECURSIVE RemoveNames(_, _)
RemoveNames(s, n) ==
    IF n > Len(RemovedNames) THEN s
    ELSE RemoveNames(Replace(s, RemovedNames[n], <<>>), n + 1)

processed_expr(s) == RemoveNames(s, 1)

\* re.fullmatch(r'[0-9eE\.\+\-\s]*', s)
FullMatchScientific(s) ==
    \A i \in 1..Len(s) :
        IsDigitChar(s[i]) \/ IsSpaceChar(s[i]) \/ s[i] \in {"e", "E", ".", "+", "-"}

\* Lines 46-48: a letter is left and the rest is no number in scientific
\* notation.
HasUnrecognized(s) ==
    /\ \E i \in 1..Len(processed_expr(s)) : IsAlphaChar(processed_expr(s)[i])
    /\ ~FullMatchScientific(Replace(processed_expr(s), <<" ">>, <<>>))

(***************************************************************************)
(* eval(expression, {"__builtins__": {}}, safe_dict) on the arithmetic     *)
(* expressions of the model: the expression is split into tokens, parsed   *)
(* as a whole, and only then evaluated from the left.  An expression       *)
(* beyond this grammar or beyond exact arithmetic gives "Unsupported".     *)
(***************************************************************************)
NumToken(text)  == [k |-> "num", text |-> text]
NameToken(text) == [k |-> "name", text |-> text]
OpToken(text)   == [k |-> "op", text |-> text]
BadToken        == [k |-> "bad", text |-> <<>>]
UnknownToken    == [k |-> "unknown", text |-> <<>>]

IsNumberChar(c) == IsDigitChar(c) \/ c = "."

\* Length of the longest prefix of s that is digits and points, and of the
\* longest prefix that is word characters.
RECURSIVE NumberRunLen(_)
NumberRunLen(s) ==
    IF s # <<>> /\ IsNumberChar(Head(s)) THEN 1 + NumberRunLen(Tail(s)) ELSE 0

RECURSIVE WordRunLen(_)
WordRunLen(s) ==
    IF s # <<>> /\ IsWordChar(Head(s)) THEN 1 + WordRunLen(Tail(s)) ELSE 0

CountOf(c, s) == Cardinality({ i \in 1..Len(s) : s[i] = c })

\* A run of digits and points is a number when it has a digit and at most
\* one point, is no integer with a leading zero, and no letter or underscore
\* follows it.
RECURSIVE Tokenize(_)
Tokenize(s) ==
    IF s = <<>> THEN <<>>
    ELSE IF IsSpaceChar(Head(s)) THEN Tokenize(Tail(s))
    ELSE IF IsNumberChar(Head(s))
         THEN LET n    == NumberRunLen(s)
                  text == SubSeq(s, 1, n)
                  rest == SubSeq(s, n + 1, Len(s))
              IN  IF \/ CountOf(".", text) > 1
                     \/ CountOf(".", text) = n
                     \/ /\ CountOf(".", text) = 0
                        /\ n > 1
                        /\ text[1] = "0"
                        /\ CountOf("0", text) < n
                     \/ (rest # <<>> /\ (IsAlphaChar(Head(rest)) \/ Head(rest) = "_"))
                  THEN <<BadToken>>
                  ELSE <<NumToken(text)>> \o Tokenize(rest)
    ELSE IF IsWordChar(Head(s))
         THEN LET n == WordRunLen(s)
              IN  <<NameToken(SubSeq(s, 1, n))>> \o Tokenize(SubSeq(s, n + 1, Len(s)))
    ELSE IF Len(s) >= 2 /\ s[1] = "*" /\ s[2] = "*"
         THEN <<OpToken(<<"*", "*">>)>> \o Tokenize(SubSeq(s, 3, Len(s)))
    ELSE IF Head(s) \in {"+", "-", "*", "/", "(", ")", ",", "[", "]"}
         THEN <<OpToken(<<Head(s)>>)>> \o Tokenize(Tail(s))
    ELSE <<UnknownToken>>

\* Result of parsing from a position: a syntax tree and the position behind
\* it, or a syntax error.
Parsed(ast, pos) == [ok |-> TRUE, ast |-> ast, pos |-> pos]
NoParse          == [ok |-> FALSE, ast |-> <<>>, pos |-> 0]

IsOp(toks, pos, text) ==
    pos <= Len(toks) /\ toks[pos] = OpToken(text)

RECURSIVE ParseArith(_, _), ParseArithRest(_, _), ParseTerm(_, _)
RECURSIVE ParseTermRest(_, _), ParseFactor(_, _), ParsePower(_, _)
RECURSIVE ParseAtom(_, _), ParseArgs(_, _, _), ParseItems(_, _, _)

\* arith: term (('+' | '-') term)*
ParseArith(toks, pos) ==
    LET first == ParseTerm(toks, pos)
    IN  IF first.ok THEN ParseArithRest(toks, first) ELSE NoParse

ParseArithRest(toks, left) ==
    IF IsOp(toks, left.pos, <<"+">>) \/ IsOp(toks, left.pos, <<"-">>)
    THEN LET right == ParseTerm(toks, left.pos + 1)
         IN  IF right.ok
             THEN ParseArithRest(toks,
                      Parsed([n |-> "bin", op |-> toks[left.pos].text,
                              l |-> left.ast, r |-> right.ast], right.pos))
             ELSE NoParse
    ELSE left

\* term: factor (('*' | '/') factor)*
ParseTerm(toks, pos) ==
    LET first == ParseFactor(toks, pos)
    IN  IF first.ok THEN ParseTermRest(toks, first) ELSE NoParse

ParseTermRest(toks, left) ==
    IF IsOp(toks, left.pos, <<"*">>) \/ IsOp(toks, left.pos, <<"/">>)
    THEN LET right == ParseFactor(toks, left.pos + 1)
         IN  IF right.ok
             THEN ParseTermRest(toks,
                      Parsed([n |-> "bin", op |-> toks[left.pos].text,
                              l |-> left.ast, r |-> right.ast], right.pos))
             ELSE NoParse
    ELSE left

\* factor: ('+' | '-') factor | power
ParseFactor(toks, pos) ==
    IF IsOp(toks, pos, <<"-">>) \/ IsOp(toks, pos, <<"+">>)
    THEN LET inner == ParseFactor(toks, pos + 1)
         IN  IF inner.ok
             THEN Parsed([n |-> "unary", op |-> toks[pos].text, e |-> inner.ast], inner.pos)
             ELSE NoParse
    ELSE ParsePower(toks, pos)

\* power: atom ['**' factor]
ParsePower(toks, pos) ==
    LET base == ParseAtom(toks, pos)
    IN  IF ~base.ok THEN NoParse
        ELSE IF IsOp(toks, base.pos, <<"*", "*">>)
        THEN LET exponent == ParseFactor(toks, base.pos + 1)
             IN  IF exponent.ok
                 THEN Parsed([n |-> "bin", op |-> <<"*", "*">>,
                              l |-> base.ast, r |-> exponent.ast], exponent.pos)
                 ELSE NoParse
        ELSE base

\* atom: NUMBER | NAME | NAME '(' args ')' | '(' arith ')' | '[' items ']'
ParseAtom(toks, pos) ==
    IF pos > Len(toks) THEN NoParse
    ELSE IF toks[pos].k = "num"
    THEN Parsed([n |-> "num", text |-> toks[pos].text], pos + 1)
    ELSE IF toks[pos].k = "name"
    THEN IF IsOp(toks, pos + 1, <<"(">>)
         THEN IF IsOp(toks, pos + 2, <<")">>)
              THEN Parsed([n |-> "call", f |-> toks[pos].text, args |-> <<>>], pos + 3)
              ELSE ParseArgs(toks, pos + 2, [n |-> "call", f |-> toks[pos].text, args |-> <<>>])
         ELSE Parsed([n |-> "name", id |-> toks[pos].text], pos + 1)
    ELSE IF IsOp(toks, pos, <<"(">>)
    THEN LET inner == ParseArith(toks, pos + 1)
         IN  IF inner.ok /\ IsOp(toks, inner.pos, <<")">>)
             THEN Parsed(inner.ast, inner.pos + 1)
             ELSE NoParse
    ELSE IF IsOp(toks, pos, <<"[">>)
    THEN IF IsOp(toks, pos + 1, <<"]">>)
         THEN Parsed([n |-> "list", args |-> <<>>], pos + 2)
         ELSE ParseItems(toks, pos + 1, [n |-> "list", args |-> <<>>])
    ELSE NoParse

\* args: arith (',' arith)* ')'
ParseArgs(toks, pos, call) ==
    LET arg == ParseArith(toks, pos)
    IN  IF ~arg.ok THEN NoParse
        ELSE LET extended == [call EXCEPT !.args = Append(@, arg.ast)]
             IN  IF IsOp(toks, arg.pos, <<")">>)
                 THEN Parsed(extended, arg.pos + 1)
                 ELSE IF IsOp(toks, arg.pos, <<",">>)
                 THEN ParseArgs(toks, arg.pos + 1, extended)
                 ELSE NoParse

\* items: arith (',' arith)* ']'
ParseItems(toks, pos, list) ==
    LET item == ParseArith(toks, pos)
    IN  IF ~item.ok THEN NoParse
        ELSE LET extended == [list EXCEPT !.args = Append(@, item.ast)]
             IN  IF IsOp(toks, item.pos, <<"]">>)
                 THEN Parsed(extended, item.pos + 1)
                 ELSE IF IsOp(toks, item.pos, <<",">>)
                 THEN ParseItems(toks, item.pos + 1, extended)
                 ELSE NoParse

\* The token can be the last of an atom.
EndsAtom(tok) ==
    \/ tok.k \in {"num", "name"}
    \/ tok = OpToken(<<")">>)
    \/ tok = OpToken(<<"]">>)

\* The grammar above leaves out the empty tuple, tuples, a comma before the
\* closing parenthesis of a call or the closing bracket of a list,
\* subscripts, and every character Tokenize does not know.
OutsideGrammar(toks) ==
    \/ \E i \in 1..Len(toks) : toks[i] = UnknownToken
    \/ \E i \in 1..(Len(toks) - 1) :
          toks[i] = OpToken(<<",">>) /\ toks[i + 1] = OpToken(<<"]">>)
    \/ \E i \in 2..Len(toks) :
          toks[i] = OpToken(<<"[">>) /\ EndsAtom(toks[i - 1])
    \/ \E i \in 1..Len(toks) :
          /\ toks[i] = OpToken(<<"(">>)
          /\ (i = 1 \/ toks[i - 1].k # "name")
          /\ \E j \in (i + 1)..Len(toks) : toks[j] = OpToken(<<",">>)
    \/ \E i \in 1..(Len(toks) - 1) :
          /\ toks[i + 1] = OpToken(<<")">>)
          /\ \/ toks[i] = OpToken(<<",">>)
             \/ toks[i] = OpToken(<<"(">>) /\ (i = 1 \/ toks[i - 1].k # "name")
    \/ \E i \in 1..Len(toks) :
          /\ toks[i] = OpToken(<<",">>)
          /\ ~\E j \in 1..(i - 1) : toks[j].k = "name"

\* Numbers: an int or a float, held exactly as num / den in lowest terms
\* (an int has den 1); a float literal of more digits than that is kept as
\* its text.
Number(ty, num, den) == [ty |-> ty, num |-> num, den |-> den, text |-> <<>>]
Literal(text)        == [ty |-> "lit", num |-> 0, den |-> 1, text |-> text]

Ok(val)          == [ok |-> TRUE, val |-> val, exc |-> "", msg |-> <<>>]
Exc(name, msg)   == [ok |-> FALSE, val |-> Number("int", 0, 1), exc |-> name, msg |-> msg]
Unsupported      == Exc("Unsupported", <<>>)

\* Largest magnitude the exact arithmetic takes.
Limit == 10000

Abs(n) == IF n < 0 THEN 0 - n ELSE n

RECURSIVE Gcd(_, _)
Gcd(a, b) == IF b = 0 THEN a ELSE Gcd(b, a % b)

\* num / den in lowest terms with a positive denominator; den # 0.
Rational(ty, num, den) ==
    LET g    == Gcd(Abs(num), Abs(den))
        sign == IF den < 0 THEN 0 - 1 ELSE 1
    IN  Number(ty, sign * (num \div g), sign * (den \div g))

InLimit(v) == v.ty # "lit" /\ Abs(v.num) <= Limit /\ v.den <= Limit

DigitValue(c) ==
    CASE c = "0" -> 0 [] c = "1" -> 1 [] c = "2" -> 2 [] c = "3" -> 3
      [] c = "4" -> 4 [] c = "5" -> 5 [] c = "6" -> 6 [] c = "7" -> 7
      [] c = "8" -> 8 [] c = "9" -> 9

DigitChar(d) == <<"0", "1", "2", "3", "4", "5", "6", "7", "8", "9">>[d + 1]

RECURSIVE DigitsValue(_)
DigitsValue(digits) ==
    IF digits = <<>> THEN 0
    ELSE 10 * DigitsValue(SubSeq(digits, 1, Len(digits) - 1))
         + DigitValue(digits[Len(digits)])

RECURSIVE PowerOf(_, _)
PowerOf(base, n) == IF n = 0 THEN 1 ELSE base * PowerOf(base, n - 1)

\* The value of a number token.
NumberValue(text) ==
    LET digits == Replace(text, <<".">>, <<>>)
        point  == IF CountOf(".", text) = 0 THEN 0
                  ELSE CHOOSE i \in 1..Len(text) : text[i] = "."
    IN  IF point = 0
        THEN IF Len(digits) <= 4 THEN Ok(Number("int", DigitsValue(digits), 1))
             ELSE Unsupported
        ELSE IF Len(digits) <= 4
             THEN Ok(Rational("float", DigitsValue(digits), PowerOf(10, Len(text) - point)))
             ELSE Ok(Literal(text))

\* The names of safe_dict.
SafeNames ==
    { <<"a", "b", "s">>, <<"r", "o", "u", "n", "d">>, <<"m", "i", "n">>,
      <<"m", "a", "x">>, <<"s", "u", "m">>, <<"s", "q", "r", "t">>,
      <<"s", "i", "n">>, <<"c", "o", "s">>, <<"t", "a", "n">>,
      <<"a", "s", "i", "n">>, <<"a", "c", "o", "s">>, <<"a", "t", "a", "n">>,
      <<"l", "o", "g">>, <<"l", "o", "g", "1", "0">>, <<"e", "x", "p">>,
      <<"p", "o", "w">>, <<"f", "l", "o", "o", "r">>, <<"c", "e", "i", "l">>,
      <<"p", "i">>, <<"e">> }

FloatIfAny(a, b) == IF a.ty = "int" /\ b.ty = "int" THEN "int" ELSE "float"

\* a op b for + - * / and **
BinaryOp(op, a, b) ==
    IF ~InLimit(a) \/ ~InLimit(b) THEN Unsupported
    ELSE CASE op = <<"+">> ->
                Ok(Rational(FloatIfAny(a, b), a.num * b.den + b.num * a.den, a.den * b.den))
           [] op = <<"-">> ->
                Ok(Rational(FloatIfAny(a, b), a.num * b.den - b.num * a.den, a.den * b.den))
           [] op = <<"*">> ->
                Ok(Rational(FloatIfAny(a, b), a.num * b.num, a.den * b.den))
           [] op = <<"/">> ->
                IF b.num = 0
                THEN Exc("ZeroDivisionError", <<"division by zero">>)
                ELSE Ok(Rational("float", a.num * b.den, a.den * b.num))
           [] op = <<"*", "*">> ->
                IF b.ty = "int" /\ b.num >= 0 /\ b.num <= 4 /\ Abs(a.num) <= 10 /\ a.den <= 10
                THEN Ok(Rational(a.ty, PowerOf(a.num, b.num), PowerOf(a.den, b.num)))
                ELSE Unsupported

IsSquare(n) == \E r \in 0..100 : r * r = n

SquareRoot(n) == CHOOSE r \in 0..100 : r * r = n

\* Less(a, b): a < b
Less(a, b) == a.num * b.den < b.num * a.den

\* min(args) and max(args) of two arguments or more: the first smallest and
\* the first largest.
RECURSIVE Least(_), Greatest(_)
Least(args) ==
    IF Len(args) = 1 THEN args[1]
    ELSE LET rest == Least(Tail(args))
         IN  IF Less(rest, args[1]) THEN rest ELSE args[1]

Greatest(args) ==
    IF Len(args) = 1 THEN args[1]
    ELSE LET rest == Greatest(Tail(args))
         IN  IF Less(args[1], rest) THEN rest ELSE args[1]

\* math.floor(v): the largest integer not above v.
Floor(v) == v.num \div v.den

\* round(v): the nearest integer, the even one of two equally near.
RoundHalfEven(v) ==
    LET q == Floor(v)
        r == v.num - q * v.den
    IN  IF 2 * r < v.den THEN q
        ELSE IF 2 * r > v.den THEN q + 1
        ELSE IF q % 2 = 0 THEN q ELSE q + 1

\* sum(list): the items added to the int 0 from the left.
RECURSIVE Total(_, _)
Total(acc, items) ==
    IF items = <<>> THEN Ok(acc)
    ELSE LET next == BinaryOp(<<"+">>, acc, Head(items))
         IN  IF next.ok THEN Total(next.val, Tail(items)) ELSE next

\* The name under which Apply is given the items of the list of sum([...]).
SumOfList == <<"s", "u", "m", "[", "]">>

\* f(*args) for the functions of safe_dict the model evaluates: the
\* functions of integers and rationals exactly, the transcendental ones at
\* the arguments where their value is an integer.
Apply(f, args) ==
    IF \E i \in 1..Len(args) : ~InLimit(args[i]) THEN Unsupported
    ELSE IF f = <<"s", "q", "r", "t">>
    THEN IF Len(args) # 1
         THEN Exc("TypeError", <<"math.sqrt() takes exactly one argument (",
                                 ToString(Len(args)), " given)">>)
         ELSE IF args[1].num < 0 THEN Exc("ValueError", <<"math domain error">>)
         ELSE IF IsSquare(args[1].num) /\ IsSquare(args[1].den)
         THEN Ok(Number("float", SquareRoot(args[1].num), SquareRoot(args[1].den)))
         ELSE Unsupported
    ELSE IF f = <<"a", "b", "s">>
    THEN IF Len(args) # 1
         THEN Exc("TypeError", <<"abs() takes exactly one argument (",
                                 ToString(Len(args)), " given)">>)
         ELSE Ok(Number(args[1].ty, Abs(args[1].num), args[1].den))
    ELSE IF f = <<"m", "i", "n">> /\ Len(args) >= 2 THEN Ok(Least(args))
    ELSE IF f = <<"m", "a", "x">> /\ Len(args) >= 2 THEN Ok(Greatest(args))
    ELSE IF f = SumOfList THEN Total(Number("int", 0, 1), args)
    ELSE IF Len(args) # 1 THEN Unsupported
    ELSE IF f \in { <<"s", "i", "n">>, <<"t", "a", "n">>, <<"a", "s", "i", "n">>,
                    <<"a", "t", "a", "n">> }
    THEN IF args[1].num = 0 THEN Ok(Number("float", 0, 1)) ELSE Unsupported
    ELSE IF f \in { <<"c", "o", "s">>, <<"e", "x", "p">> }
    THEN IF args[1].num = 0 THEN Ok(Number("float", 1, 1)) ELSE Unsupported
    ELSE IF f \in { <<"a", "c", "o", "s">>, <<"l", "o", "g">> }
    THEN IF args[1].num = 1 /\ args[1].den = 1
         THEN Ok(Number("float", 0, 1)) ELSE Unsupported
    ELSE IF f = <<"l", "o", "g", "1", "0">>
    THEN IF args[1].den = 1 /\ \E k \in 0..4 : args[1].num = PowerOf(10, k)
         THEN Ok(Number("float", CHOOSE k \in 0..4 : args[1].num = PowerOf(10, k), 1))
         ELSE Unsupported
    ELSE IF f = <<"f", "l", "o", "o", "r">> THEN Ok(Number("int", Floor(args[1]), 1))
    ELSE IF f = <<"c", "e", "i", "l">>
    THEN Ok(Number("int", 0 - Floor(Number("float", 0 - args[1].num, args[1].den)), 1))
    ELSE IF f = <<"r", "o", "u", "n", "d">> THEN Ok(Number("int", RoundHalfEven(args[1]), 1))
    ELSE Unsupported

\* Evaluation of a syntax tree: operands from the left, the name of a call
\* before its arguments; the first exception ends it.
RECURSIVE Evaluate(_), EvaluateArgs(_, _)
Evaluate(ast) ==
    CASE ast.n = "num"  -> NumberValue(ast.text)
      [] ast.n = "name" ->
            IF ast.id \in SafeNames THEN Unsupported
            ELSE Exc("NameError", <<"name '">> \o ast.id \o <<"' is not defined">>)
      [] ast.n = "unary" ->
            LET e == Evaluate(ast.e)
            IN  IF ~e.ok THEN e
                ELSE IF e.val.ty = "lit" THEN Unsupported
                ELSE IF ast.op = <<"-">>
                THEN Ok(Number(e.val.ty, 0 - e.val.num, e.val.den))
                ELSE e
      [] ast.n = "bin" ->
            LET l == Evaluate(ast.l)
            IN  IF ~l.ok THEN l
                ELSE LET r == Evaluate(ast.r)
                     IN  IF ~r.ok THEN r ELSE BinaryOp(ast.op, l.val, r.val)
      [] ast.n = "list" -> Unsupported
      [] ast.n = "call" ->
            IF ast.f \notin SafeNames
            THEN Exc("NameError", <<"name '">> \o ast.f \o <<"' is not defined">>)
            ELSE IF /\ ast.f = <<"s", "u", "m">>
                    /\ Len(ast.args) = 1
                    /\ ast.args[1].n = "list"
            THEN EvaluateArgs([n |-> "call", f |-> SumOfList,
                               args |-> ast.args[1].args], <<>>)
            ELSE EvaluateArgs(ast, <<>>)

EvaluateArgs(call, vals) ==
    IF Len(vals) = Len(call.args) THEN Apply(call.f, vals)
    ELSE LET v == Evaluate(call.args[Len(vals) + 1])
         IN  IF ~v.ok THEN v ELSE EvaluateArgs(call, Append(vals, v.val))

\* eval(expression, ...): SyntaxError unless the whole text is one
\* expression.
PyEval(s) ==
    LET toks == Tokenize(s)
    IN  IF OutsideGrammar(toks) THEN Unsupported
        ELSE IF toks = <<>> \/ toks[Len(toks)] = BadToken
        THEN Exc("SyntaxError", <<"invalid syntax">>)
        ELSE LET tree == ParseArith(toks, 1)
             IN  IF tree.ok /\ tree.pos = Len(toks) + 1
                 THEN Evaluate(tree.ast)
                 ELSE Exc("SyntaxError", <<"invalid syntax">>)

\* str(n) of an int
RECURSIVE NaturalText(_)
NaturalText(n) ==
    IF n < 10 THEN <<DigitChar(n)>>
    ELSE NaturalText(n \div 10) \o <<DigitChar(n % 10)>>

IntText(n) == IF n < 0 THEN <<"-">> \o NaturalText(0 - n) ELSE NaturalText(n)

\* The digits behind the point of rem / den, rem < den, when they end
\* within the given number of places.
RECURSIVE FractionDigits(_, _, _)
FractionDigits(rem, den, places) ==
    IF rem = 0 \/ places = 0 THEN <<>>
    ELSE <<DigitChar((rem * 10) \div den)>>
         \o FractionDigits((rem * 10) % den, den, places - 1)

RECURSIVE Remainder(_, _, _)
Remainder(rem, den, places) ==
    IF rem = 0 \/ places = 0 THEN rem
    ELSE Remainder((rem * 10) % den, den, places - 1)

\* The precision of the format '.10g'.
SignificantDigits == 10

\* f"{result:.10g}" of a float that is no integer, when its decimal
\* expansion ends within the significant digits and its size is 0.001 or
\* more: the digits as they are, without rounding and without exponent.
TenSignificant(v) ==
    LET whole  == Abs(v.num) \div v.den
        rem    == Abs(v.num) % v.den
        sign   == IF v.num < 0 THEN <<"-">> ELSE <<>>
        places == IF whole = 0 THEN SignificantDigits - 1
                  ELSE SignificantDigits - Len(NaturalText(whole))
    IN  IF Remainder(rem, v.den, places) # 0 \/ Abs(v.num) * 1000 < v.den
        THEN <<"Unsupported">>
        ELSE sign \o NaturalText(whole) \o <<".">> \o FractionDigits(rem, v.den, places)

\* f"{result:.10g}" of a float literal of more digits than that, 1 or
\* more in size: the significant digits are kept, the last is raised when
\* the digit behind it is 5 or more, and the point stays where it was.
TenSignificantOfLiteral(text) ==
    LET digits == Replace(text, <<".">>, <<>>)
        point  == CHOOSE i \in 1..Len(text) : text[i] = "."
        next   == DigitValue(digits[SignificantDigits + 1])
        last   == DigitValue(digits[SignificantDigits])
        kept   == IF next >= 5
                  THEN SubSeq(digits, 1, SignificantDigits - 1) \o <<DigitChar(last + 1)>>
                  ELSE SubSeq(digits, 1, SignificantDigits)
    IN  IF \/ Len(digits) < SignificantDigits + 2
           \/ point = 1
           \/ point > SignificantDigits
           \/ text[1] = "0"
           \/ (next >= 5 /\ last = 9)
           \/ (next < 5 /\ last = 0)
        THEN <<"Unsupported">>
        ELSE SubSeq(kept, 1, point - 1) \o <<".">> \o SubSeq(kept, point, SignificantDigits)

format_result_always_str(v) ==
    IF v.ty = "lit" THEN v.text
    ELSE IF v.ty = "int" \/ v.den = 1
    THEN IntText(v.num) \o (IF v.ty = "float" THEN <<".", "0">> ELSE <<>>)
    ELSE TenSignificant(v)

\* Lines 53-55: a float that is an integer is shown as an int, another
\* float with ten significant digits, anything else by str().
format_result(v) ==
    IF v.ty = "lit" THEN TenSignificantOfLiteral(v.text)
    ELSE IF v.ty = "int" THEN IntText(v.num)
    ELSE IF v.den = 1 THEN IntText(v.num)
    ELSE TenSignificant(v)

DangerousError ==
    <<"Error", ": Invalid expression - contains potentially dangerous operations.">>

UnrecognizedError(e) ==
    <<"Error", ": Invalid expression - contains unrecognized characters or variable names: '">>
    \o e \o <<"'">>

\* The expression reaches eval: neither check of lines 29-48 returned.
ReachesEval(e) == ~IsDangerous(e) /\ ~HasUnrecognized(e)

\* The except clauses of lines 57-61, for the exception eval raised.
HandlerText(exc, msg, e) ==
    CASE exc = "ZeroDivisionError" -> <<"Error", ": Division by zero.">>
      [] exc = "ValueError" ->
            <<"Error", ": Invalid mathematical operation - ">> \o msg \o <<".">>
      [] exc = "SyntaxError" ->
            <<"Error", ": Invalid mathematical expression syntax in '">> \o e \o <<"'.">>
      [] exc = "NameError" ->
            <<"Error", ": Unrecognized name or function in expression: ">> \o msg
      [] OTHER -> <<"Error", " calculating '">> \o e \o <<"': ">> \o msg \o <<".">>

\* The element of a set of one element.  { F(x) : x \in {e} } is such a
\* set, and TLC computes e once for it however often F uses x.
The(S) == CHOOSE x \in S : TRUE

\* Lines 53-61 for what eval did.
Rendered(r, e) ==
    IF r.ok THEN Returned(format_result(r.val))
    ELSE Returned(HandlerText(r.exc, r.msg, e))

Rendered_without_last_handler(r, e) ==
    IF r.ok THEN Returned(format_result(r.val))
    ELSE IF r.exc \in {"ZeroDivisionError", "ValueError", "SyntaxError", "NameError"}
    THEN Returned(HandlerText(r.exc, r.msg, e))
    ELSE Raised(r.msg)

\* Lines 29-61 for the normalized expression e.
CalculatorOn(e) ==
    IF IsDangerous(e) THEN Returned(DangerousError)
    ELSE IF HasUnrecognized(e) THEN Returned(UnrecognizedError(e))
    ELSE The({ Rendered(r, e) : r \in {PyEval(e)} })

CalculatorOn_without_last_handler(e) ==
    IF IsDangerous(e) THEN Returned(DangerousError)
    ELSE IF HasUnrecognized(e) THEN Returned(UnrecognizedError(e))
    ELSE The({ Rendered_without_last_handler(r, e) : r \in {PyEval(e)} })

calculator_without_last_handler(expr) ==
    The({ CalculatorOn_without_last_handler(e) : e \in {Normalize(expr)} })

\* calculator(expression)
calculator(expr) == The({ CalculatorOn(e) : e \in {Normalize(expr)} })

\* Expressions the calculator is tried on: the examples of its contract,
\* expressions that fail in each way, expressions that name what the
\* patterns forbid, and chains of operands and operators.
\* One call of each function of safe_dict that the contract names, with
\* arguments in its domain, and the two constants.
ContractCalls ==
    { <<"s", "q", "r", "t", "(", "1", "6", ")">>,
      <<"s", "i", "n", "(", "0", ")">>,
      <<"c", "o", "s", "(", "0", ")">>,
      <<"t", "a", "n", "(", "0", ")">>,
      <<"a", "s", "i", "n", "(", "0", ")">>,
      <<"a", "c", "o", "s", "(", "1", ")">>,
      <<"a", "t", "a", "n", "(", "0", ")">>,
      <<"l", "o", "g", "(", "1", ")">>,
      <<"l", "o", "g", "1", "0", "(", "1", "0", "0", ")">>,
      <<"e", "x", "p", "(", "0", ")">>,
      <<"f", "l", "o", "o", "r", "(", "2", ".", "5", ")">>,
      <<"c", "e", "i", "l", "(", "2", ".", "5", ")">>,
      <<"a", "b", "s", "(", "-", "3", ")">>,
      <<"r", "o", "u", "n", "d", "(", "2", ".", "5", ")">>,
      <<"m", "i", "n", "(", "1", ",", " ", "2", ")">>,
      <<"m", "a", "x", "(", "2", ",", " ", "7", ")">>,
      <<"s", "u", "m", "(", "[", "1", ",", " ", "2", "]", ")">>,
      <<"p", "i">>,
      <<"e">> }

SpecialExpressions ==
    { <<"2", " ", "+", " ", "3", " ", "*", " ", "4">>,
      <<"(", "1", "0", " ", "+", " ", "5", ")", " ", "/", " ", "3">>,
      <<"s", "q", "r", "t", "(", "1", "6", ")">>,
      <<"2", "*", "*", "3">>,
      <<"1", "/", "0">>,
      <<"1", "0", "/", "4">>,
      <<"s", "q", "r", "t", "(", "-", "1", ")">>,
      <<"s", "q", "r", "t", "(", ")">>,
      <<"2", " ", "+">>,
      <<>>,
      <<"_">>,
      <<"2", "x">>,
      <<"x">>,
      <<"_", "_", "i", "m", "p", "o", "r", "t", "_", "_", "(", "'", "o", "s", "'", ")">>,
      <<"_", "_", "e", "_", "_">>,
      <<"_", "_", "p", "i", "_", "_">>,
      <<"_", "_", "c", "l", "a", "s", "s", "_", "_">>,
      <<"e", "x", "e", "c", "(", "1", ")">>,
      <<"e", "v", "a", "l", "(", "'", "1", "'", ")">>,
      <<"o", "p", "e", "n", "(", "'", "f", "'", ")">>,
      <<"i", "n", "p", "u", "t", "(", ")">>,
      <<"i", "m", "p", "o", "r", "t", " ", "o", "s">>,
      <<"e">>,
      <<"p", "i">>,
      <<"e", "x", "p", "(", "1", ")">>,
      <<" ", "S", "Q", "R", "T", "(", "1", "6", ")", " ">>,
      <<"a", "b", "s", "(", "-", "3", ")">>,
      <<"m", "i", "n", "(", "1", ",", " ", "2", ")">>,
      <<"m", "a", "x", "(", "2", ",", " ", "7", ")">>,
      <<"-", "2", " ", "+", " ", "5">>,
      <<"1", "/", "8">>,
      <<"0", "1", "2">>,
      <<"1", ".", "2", ".", "3">>,
      <<"2", " ", "*", " ", "(", "3">>,
      <<"_", "(", "1", ")">>,
      <<"1", "E", "5">>,
      <<"s", "q", "r", "t", "(", "1", ",", " ", "2", ")">> }
    \cup ContractCalls

Operands ==
    { <<"2">>,
      <<"0">>,
      <<"1", "6">>,
      <<"2", ".", "5">>,
      <<"s", "q", "r", "t", "(", "1", "6", ")">>,
      <<"(", "1", " ", "+", " ", "3", ")">> }

Operators == { <<" ", "+", " ">>, <<" ", "-", " ">>, <<"*">>, <<"/">> }

MaxOperands == 2

\* Chains of n operands with an operator between each two.
RECURSIVE Chains(_)
Chains(n) ==
    IF n = 1 THEN Operands
    ELSE { c \o op \o x : c \in Chains(n - 1), op \in Operators, x \in Operands }

Expressions == SpecialExpressions \cup UNION { Chains(n) : n \in 1..MaxOperands }

\* The expression is within what the model of eval and of the format
\* covers.
EvaluableResult(r) ==
    /\ r.exc # "Unsupported"
    /\ r.ok => \A text \in {format_result(r.val)} : text # <<"Unsupported">>

EvaluableOn(e) ==
    ReachesEval(e) => \A r \in {PyEval(e)} : EvaluableResult(r)

Evaluable(expr) == \A e \in {Normalize(expr)} : EvaluableOn(e)

CalcInit ==
    /\ expression \in { x \in Expressions : Evaluable(x) }
    /\ calcPc = "call"
    /\ calcResult = Returned(<<>>)
    /\ evalArg = NotEvaluated

\* One call of the calculator; evalArg records what was handed to eval.
Calculate ==
    /\ calcPc = "call"
    /\ calcResult' = calculator(expression)
    /\ \E e \in {Normalize(expression)} :
          evalArg' = IF ReachesEval(e) THEN [reached |-> TRUE, text |-> e]
                     ELSE NotEvaluated
    /\ calcPc' = "done"
    /\ UNCHANGED <<expression, wfVars, simVars, ragVars, lookVars, loadVars>>

RagInit ==
    /\ dataset \in UNION { Corpora(n) : n \in 0..MaxCorpus }
    /\ user_query \in QueryPool
    /\ top_k \in (0 - MaxK)..MaxK
    /\ ragPc = "call"
    /\ found = <<>>

\* A find_similar_query that would order the corpus itself by similarity
\* and return a prefix of it.
FindSimilarQuery_sorts_corpus ==
    /\ ragPc = "call"
    /\ dataset' = find_similar_query(dataset, user_query, Len(dataset))
    /\ found' = find_similar_query(dataset, user_query, top_k)
    /\ ragPc' = "done"
    /\ UNCHANGED <<user_query, top_k, wfVars, simVars, toolVars>>

\* find_similar_query builds the list `similarities` of its own, sorts and
\* slices that list, and leaves self.dataset as it is.
FindSimilarQuery ==
    /\ ragPc = "call"
    /\ found' = find_similar_query(dataset, user_query, top_k)
    /\ ragPc' = "done"
    /\ UNCHANGED <<dataset, user_query, top_k, wfVars, simVars, toolVars>>

\* The next calls on the same rag_system, by whichever session: both tools
\* have returned and are called again, with another query and another k.
\* The calls of several sessions come one after the other in any order; a
\* call keeps nothing of the session that made it.
NextCall ==
    /\ ragPc = "done"
    /\ lookPc = "done"
    /\ user_query' \in QueryPool
    /\ top_k' \in (0 - MaxK)..MaxK
    /\ ragPc' = "call"
    /\ found' = <<>>
    /\ lookPc' = "call"
    /\ lookResult' = Returned(<<>>)
    /\ UNCHANGED <<dataset, wfVars, simVars, loadVars, calcVars>>

(***************************************************************************)
(* Specifications.                                                         *)
(***************************************************************************)
Init == WfInit /\ SimIdle /\ RagIdle /\ ToolsIdle

Next ==
    \/ \E s \in Sessions, q \in QueryTexts : Submit(s, q)
    \/ \E s \in Sessions : FinancialNode(s)
    \/ \E s \in Sessions : MathNode(s)

Spec == Init /\ [][Next]_vars

\* A stage invocation is a blocking call that returns or raises: a run that
\* is at a node takes that node's step.
FairSpec ==
    /\ Spec
    /\ \A s \in Sessions : WF_vars(FinancialNode(s)) /\ WF_vars(MathNode(s))

SimNext == CalculateSimilarity

SimSpecInit == WfInit /\ SimInit /\ RagIdle /\ ToolsIdle

SimSpec == SimSpecInit /\ [][SimNext]_vars

RagNext == FindSimilarQuery \/ FinancialContextLookup \/ NextCall

RagSpecInit == WfInit /\ SimIdle /\ RagInit /\ LookCall /\ LoadIdle /\ CalcIdle

RagSpec == RagSpecInit /\ [][RagNext]_vars

LookupNext == FinancialContextLookup

LookupSpecInit == WfInit /\ SimIdle /\ LookupInit /\ LoadIdle /\ CalcIdle

LookupSpec == LookupSpecInit /\ [][LookupNext]_vars

LoadNext == LoadDataset

LoadSpecInit == WfInit /\ SimIdle /\ RagIdle /\ LookIdle /\ LoadInit /\ CalcIdle

LoadSpec == LoadSpecInit /\ [][LoadNext]_vars

CalcNext == Calculate

CalcSpecInit == WfInit /\ SimIdle /\ RagIdle /\ LookIdle /\ LoadIdle /\ CalcInit

CalcSpec == CalcSpecInit /\ [][CalcNext]_vars

(***************************************************************************)
(* Properties of the routing workflow.                                     *)
(***************************************************************************)
History(s) == state[ThreadId(s)].messages

\* The message a stage invocation leaves in the history: its reply, or the
\* attributed error text when it raised.
StageMessage(entry) ==
    IF entry.out.kind = "reply"
    THEN AssistantMessage(entry.out.text)
    ELSE IF entry.stage = "financial_research_expert"
         THEN AssistantMessage(<<"Financial agent error: ">> \o entry.out.text)
         ELSE AssistantMessage(<<"Math agent error: ">> \o entry.out.text)

MathCalls(s) ==
    Cardinality({ i \in 1..Len(trace[s]) : trace[s][i].stage = "math_expert" })

ResearchCalls(s) ==
    Cardinality({ i \in 1..Len(trace[s]) :
                    trace[s][i].stage = "financial_research_expert" })

\* The research stage of the current run returned normally.
ResearchReplied(s) ==
    /\ Len(trace[s]) >= 1
    /\ trace[s][1].stage = "financial_research_expert"
    /\ trace[s][1].out.kind = "reply"

HandedOff(s) == ResearchReplied(s) /\ Contains(Marker, trace[s][1].out.text)

\* C1 (safety part): once the research stage has replied with the marker, the
\* run is either waiting at the computation stage, which has not run yet, or
\* is done with the computation stage invoked exactly once, on the history
\* that ends with the research reply, and with its message directly after
\* the research reply (its reply, when it returned one).
C1_HandOffShape ==
    \A s \in Sessions :
        HandedOff(s) =>
            LET research == AssistantMessage(trace[s][1].out.text)
            IN  \/ /\ pc[s] = "math_expert"
                   /\ MathCalls(s) = 0
                   /\ History(s) = runInput[s] \o <<research>>
                \/ /\ pc[s] = "END"
                   /\ MathCalls(s) = 1
                   /\ Len(trace[s]) = 2
                   /\ trace[s][2].stage = "math_expert"
                   /\ trace[s][2].given = runInput[s] \o <<research>>
                   /\ History(s) = runInput[s] \o <<research, StageMessage(trace[s][2])>>
                   /\ (trace[s][2].out.kind = "reply" =>
                         History(s)[Len(runInput[s]) + 2]
                            = AssistantMessage(trace[s][2].out.text))

\* C1: a research reply that contains the hand-off marker leads to exactly
\* one invocation of the computation stage, after the research reply was
\* appended, and the computation stage's reply follows the research reply
\* directly in the final history.
C1_MarkerInvokesMathOnce ==
    /\ []C1_HandOffShape
    /\ \A s \in Sessions :
          (HandedOff(s) /\ pc[s] = "math_expert")
              ~> (HandedOff(s) /\ pc[s] = "END" /\ MathCalls(s) = 1)

C1_Witness ==
    \E s \in Sessions :
        /\ HandedOff(s)
        /\ pc[s] = "END"
        /\ trace[s][1].out.text = <<"ok">> \o Marker \o <<"ok">>
        /\ trace[s][2].out.kind = "reply"
        /\ History(s)[3] = AssistantMessage(trace[s][2].out.text)

\* C2: a research reply without the hand-off marker ends the run after that
\* one stage: the computation stage is not invoked and the final history is
\* the input history plus the research reply.
C2_NoMarkerEndsAfterOneStage ==
    \A s \in Sessions :
        (ResearchReplied(s) /\ ~Contains(Marker, trace[s][1].out.text)) =>
            /\ pc[s] = "END"
            /\ Len(trace[s]) = 1
            /\ MathCalls(s) = 0
            /\ History(s) = runInput[s] \o <<AssistantMessage(trace[s][1].out.text)>>

C2_Witness ==
    \E s \in Sessions :
        /\ ResearchReplied(s)
        /\ trace[s][1].out.text = <<"NEED_MATH", "ok", "_CALCULATION">>
        /\ pc[s] = "END"
        /\ Len(History(s)) = 2

\* The research stage of the current run raised.
ResearchRaised(s) ==
    /\ Len(trace[s]) >= 1
    /\ trace[s][1].stage = "financial_research_expert"
    /\ trace[s][1].out.kind = "raise"

\* C3: when the research stage raises, the run is done, the computation
\* stage is not invoked, and the history ends with the assistant message
\* 'Financial agent error: <description>', whatever the description says.
C3_ResearchErrorEndsRun ==
    \A s \in Sessions :
        ResearchRaised(s) =>
            /\ pc[s] = "END"
            /\ Len(trace[s]) = 1
            /\ MathCalls(s) = 0
            /\ History(s) = runInput[s] \o
                 <<AssistantMessage(<<"Financial agent error: ">> \o trace[s][1].out.text)>>

C3_Witness ==
    \E s \in Sessions :
        /\ ResearchRaised(s)
        /\ Contains(Marker, trace[s][1].out.text)
        /\ pc[s] = "END"
        /\ History(s)[Len(History(s))].role = "assistant"

\* The computation stage of the current run raised.
MathRaised(s) ==
    /\ Len(trace[s]) >= 2
    /\ trace[s][2].stage = "math_expert"
    /\ trace[s][2].out.kind = "raise"

\* C4: when the computation stage raises, the run is done and the final
\* history is the history through the research reply followed by the one
\* assistant message 'Math agent error: <description>'.
C4_MathErrorEndsRun ==
    \A s \in Sessions :
        MathRaised(s) =>
            /\ pc[s] = "END"
            /\ Len(trace[s]) = 2
            /\ History(s) = runInput[s] \o
                 << AssistantMessage(trace[s][1].out.text),
                    AssistantMessage(<<"Math agent error: ">> \o trace[s][2].out.text) >>

C4_Witness ==
    \E s \in Sessions :
        /\ MathRaised(s)
        /\ pc[s] = "END"
        /\ Len(History(s)) = 3
        /\ History(s)[3].content = <<"Math agent error: ", "timeout">>

\* C5 (safety part): a run invokes the research stage first and once, the
\* computation stage at most once and second, every invocation adds one
\* entry to the history, and a run that is done has invoked a stage and
\* ends with an assistant entry.
C5_RunShape ==
    \A s \in Sessions :
        /\ Len(trace[s]) <= 2
        /\ ResearchCalls(s) <= 1
        /\ MathCalls(s) <= 1
        /\ pc[s] = "END" =>
            /\ Len(trace[s]) >= 1
            /\ ResearchCalls(s) = 1
            /\ trace[s][1].stage = "financial_research_expert"
            /\ Len(History(s)) = Len(runInput[s]) + Len(trace[s])
            /\ SubSeq(History(s), 1, Len(runInput[s])) = runInput[s]
            /\ History(s)[Len(History(s))] = StageMessage(trace[s][Len(trace[s])])
            /\ History(s)[Len(History(s))].role = "assistant"

\* C5: every run reaches END, whatever the stages reply or raise, after at
\* most two stage invocations (research once, computation at most once),
\* and at END the history ends with an assistant entry added by that run.
C5_EveryRunTerminates ==
    /\ []C5_RunShape
    /\ \A s \in Sessions :
          (pc[s] \in {"financial_research_expert", "math_expert"}) ~> (pc[s] = "END")

C5_Witness ==
    \E s \in Sessions :
        /\ pc[s] = "END"
        /\ turn[s] = 2
        /\ Len(trace[s]) = 2
        /\ trace[s][1].out.kind = "reply"
        /\ trace[s][2].out.kind = "raise"

\* The history a session's own run has produced: its query, then the
\* message of each of its own stage invocations.
OwnHistory(s) ==
    runInput[s] \o [i \in 1..Len(trace[s]) |-> StageMessage(trace[s][i])]

\* C6: whatever the interleaving of the sessions' steps, the history of a
\* session holds its own query and its own stages' messages and nothing
\* else, and each of its stages was given exactly that history.
C6_SessionsIndependent ==
    \A s \in Sessions :
        pc[s] # "idle" =>
            /\ History(s) = OwnHistory(s)
            /\ \A i \in 1..Len(trace[s]) :
                  trace[s][i].given = SubSeq(OwnHistory(s), 1, Len(runInput[s]) + i - 1)

C6_Witness ==
    /\ pc["s1"] = "math_expert"
    /\ pc["s2"] = "math_expert"
    /\ runInput["s1"] = runInput["s2"]
    /\ trace["s1"][1].out.text # trace["s2"][1].out.text

\* C18 as stated: the thread id handed to the research and math agents in
\* the run of one session differs from the one handed to them in the run of
\* another session.
C18_AgentThreadIdPerSession ==
    \A s \in Sessions, t \in Sessions :
        s # t =>
            \A i \in 1..Len(trace[s]), j \in 1..Len(trace[t]) :
                trace[s][i].thread_id # trace[t][j].thread_id

\* The step a session's run takes through one of the two nodes.
StageStep(s) ==
    /\ pc[s] \in {"financial_research_expert", "math_expert"}
    /\ trace'[s] # trace[s]

\* C19: a stage transition, whether the stage replied or raised, leaves the
\* history it was given as an unchanged prefix and adds exactly one
\* assistant entry behind it.
C19_AppendOnly ==
    [][\A s \in Sessions :
          StageStep(s) =>
              /\ Len(History(s)') = Len(History(s)) + 1
              /\ SubSeq(History(s)', 1, Len(History(s))) = History(s)
              /\ History(s)'[Len(History(s)')].role = "assistant"
              /\ trace'[s][Len(trace'[s])].given = History(s)]_vars

C19_Witness ==
    \E s \in Sessions :
        /\ pc[s] = "END"
        /\ Len(trace[s]) = 2
        /\ trace[s][2].out.kind = "raise"
        /\ Len(History(s)) = 3
        /\ History(s)[1].role = "user"

\* The step by which a session that has finished a turn submits its next
\* query.
NextTurnStep(s) ==
    /\ pc[s] = "END"
    /\ pc'[s] = "financial_research_expert"

\* C20 as stated: the history the research stage receives for a second query
\* of a session is the complete final history of the previous turn followed
\* by the new user message.
C20_HistoryAccumulates ==
    [][\A s \in Sessions :
          NextTurnStep(s) =>
              /\ Len(History(s)') = Len(History(s)) + 1
              /\ SubSeq(History(s)', 1, Len(History(s))) = History(s)
              /\ History(s)'[Len(History(s)')].role = "user"]_vars


(***************************************************************************)
(* Properties of calculate_similarity.                                     *)
(***************************************************************************)
\* The characters two strings share after lower-casing.
SharedChars(a, b) ==
    { lower(a)[i] : i \in 1..Len(a) } \cap { lower(b)[i] : i \in 1..Len(b) }

\* C8 as stated: the score does not depend on the order of the arguments.
C8_Symmetric ==
    simPc = "done" => ScoreEq(simScore, calculate_similarity(q2, q1))

\* C8 as amended: the score does not depend on the order of the arguments
\* when the two strings are equal after lower-casing (1.0 both ways) or
\* share no character (0.0 both ways).
C8_SymmetricWhenEqualOrDisjoint ==
    (simPc = "done" /\ (lower(q1) = lower(q2) \/ SharedChars(q1, q2) = {})) =>
        /\ ScoreEq(simScore, calculate_similarity(q2, q1))
        /\ lower(q1) = lower(q2) => ScoreEq(simScore, ScoreOne)
        /\ SharedChars(q1, q2) = {} /\ lower(q1) # lower(q2) => ScoreEq(simScore, ScoreZero)

C8_Witness ==
    /\ simPc = "done"
    /\ q1 = <<"a", "A", "b">>
    /\ q2 = <<"A", "a", "b">>
    /\ ScoreEq(simScore, ScoreOne)

\* C9 as stated: the score of (a, b) is the score of (a.upper(), b.lower()).
C9_CaseInsensitive ==
    simPc = "done" => ScoreEq(simScore, calculate_similarity(upper(q1), lower(q2)))

\* C9 as amended: the score of (a, b) is the score of (a.upper(), b.lower())
\* for every a whose upper-casing lower-cases back to a.lower().
C9_CaseInsensitiveOnRoundTrip ==
    (simPc = "done" /\ lower(upper(q1)) = lower(q1)) =>
        ScoreEq(simScore, calculate_similarity(upper(q1), lower(q2)))

C9_Witness ==
    /\ simPc = "done"
    /\ q1 = <<"a", "b">>
    /\ q2 = <<"A", "b", "a">>
    /\ upper(q1) # q1
    /\ lower(q2) # q2
    /\ ~ScoreEq(simScore, ScoreZero)

\* C10: the score of a non-empty string against itself is 1.0, and every
\* score lies in [0.0, 1.0].
C10_SelfOneAndRange ==
    simPc = "done" =>
        /\ simScore.den > 0
        /\ 0 <= simScore.num
        /\ simScore.num <= simScore.den
        /\ (q1 = q2 /\ q1 # <<>>) => simScore.num = simScore.den

C10_Witness ==
    /\ simPc = "done"
    /\ q1 = q2
    /\ Len(q1) >= 2
    /\ \E i \in 1..Len(q1) : q1[i] = "A"
    /\ simScore.num = simScore.den

(***************************************************************************)
(* Properties of find_similar_query.                                       *)
(***************************************************************************)
\* The returned records all bear a question and their scores against the
\* query do not increase along the result.
ScoresNonIncreasing ==
    /\ \A i \in 1..Len(found) : HasQuestion(found[i])
    /\ \A i, j \in 1..Len(found) :
          i < j => ScoreGe(calculate_similarity(user_query, found[i].qa.question),
                           calculate_similarity(user_query, found[j].qa.question))

\* C7 as stated: at most k records come back, whatever k is, by
\* non-increasing score.
C7_AtMostKSorted ==
    ragPc = "done" => (Len(found) <= top_k /\ ScoresNonIncreasing)

\* C7 as amended: the returned records are in order of non-increasing score
\* for every k, and there are at most k of them for every k >= 0.
C7_AtMostKSortedForNonNegativeK ==
    ragPc = "done" =>
        /\ ScoresNonIncreasing
        /\ top_k >= 0 => Len(found) <= top_k

C7_Witness ==
    /\ ragPc = "done"
    /\ top_k = 2
    /\ Len(found) = 2
    /\ Len(dataset) = 3
    /\ \A i \in 1..3 : HasQuestion(dataset[i])
    /\ found[1].filename > found[2].filename
    /\ ~ScoreEq(calculate_similarity(user_query, found[1].qa.question),
                calculate_similarity(user_query, found[2].qa.question))

(***************************************************************************)
(* C11: if the corpus is empty, or no record has a present and non-empty   *)
(* qa.question, find_similar_query returns the empty sequence for every    *)
(* query and k and financial_context_lookup returns exactly the sentinel   *)
(* 'No similar queries found in the financial dataset.'; a record whose    *)
(* question is missing or empty is never among the returned matches.       *)
(***************************************************************************)
NoRecordHasQuestion == \A i \in 1..Len(dataset) : ~HasQuestion(dataset[i])

C11_NoQuestionNoMatch ==
    /\ ragPc = "done" =>
          /\ NoRecordHasQuestion => found = <<>>
          /\ \A i \in 1..Len(found) :
                /\ "qa" \in DOMAIN found[i]
                /\ "question" \in DOMAIN found[i].qa
                /\ found[i].qa.question # <<>>
    /\ (lookPc = "done" /\ NoRecordHasQuestion) =>
          lookResult = Returned(NoSimilarQueries)

\* A corpus of records none of which bears a question, one of them with an
\* empty question, searched with a positive k and looked up.
C11_Witness ==
    /\ ragPc = "done"
    /\ lookPc = "done"
    /\ Len(dataset) >= 2
    /\ NoRecordHasQuestion
    /\ \E i \in 1..Len(dataset) :
          /\ "qa" \in DOMAIN dataset[i]
          /\ "question" \in DOMAIN dataset[i].qa
          /\ dataset[i].qa.question = <<>>
    /\ top_k > 0
    /\ user_query # <<>>
    /\ found = <<>>
    /\ lookResult = Returned(NoSimilarQueries)


(***************************************************************************)
(* C13: financial_context_lookup never raises to its caller: for every     *)
(* query and corpus content (records with missing fields, records that are *)
(* no objects, tables that are no lists, cells that are no strings) an     *)
(* exception raised while matching or formatting is caught and the call    *)
(* returns a text.                                                         *)
(***************************************************************************)
StartsWith(text, prefix) ==
    /\ Len(text) >= Len(prefix)
    /\ SubSeq(text, 1, Len(prefix)) = prefix

C13_LookupNeverRaises ==
    lookPc = "done" =>
        /\ ~lookResult.raised
        /\ lookResult.text # <<>>
        /\ LookupBody(dataset, user_query).raised =>
              StartsWith(lookResult.text, <<"Error in financial_context_lookup: ">>)

\* The best match has a table that is a number, and the call returned the
\* error text.
C13_Witness ==
    /\ lookPc = "done"
    /\ Len(dataset) = 2
    /\ ~FindRaises(dataset)
    /\ LookupBody(dataset, user_query).raised
    /\ TableRaises(Get(find_similar_query(dataset, user_query, LookupTopK)[1],
                       "table_ori", List(<<>>)))
    /\ lookResult =
          Returned(<<"Error in financial_context_lookup: ",
                     "object of type 'int' has no len()">>)


(***************************************************************************)
(* C14: when the corpus holds the built-in sample record and the query is  *)
(* that record's question verbatim, the top match is that record with      *)
(* similarity 1.0, and the table rendering the lookup produces for it      *)
(* contains both figures 206588 and 181001.                                *)
(***************************************************************************)
IndexOf(token, text) == CHOOSE i \in 1..Len(text) : text[i] = token

\* The part of a response between the table heading and the rules heading:
\* formatted_table followed by year_headers.
TableRendering(text) ==
    SubSeq(text, IndexOf("EXACT TABLE DATA TO EXTRACT FROM:", text) + 1,
                 IndexOf("EXTRACTION RULES", text) - 1)

SampleQueried ==
    /\ lookPc = "done"
    /\ ~FindRaises(dataset)
    /\ \E i \in 1..Len(dataset) : dataset[i] = SampleRecord
    /\ user_query = SampleQuestion

TopMatch == find_similar_query(dataset, user_query, LookupTopK)[1]

SampleIsTopMatch ==
    /\ TopMatch = SampleRecord
    /\ ScoreEq(calculate_similarity(user_query, TopMatch.qa.question), ScoreOne)
    /\ StartsWith(lookResult.text, <<"CRITICAL DATA EXTRACTION TASK">>)

C14_SampleFiguresInTable ==
    SampleQueried =>
        /\ SampleIsTopMatch
        /\ Contains(<<"206588">>, TableRendering(lookResult.text))
        /\ Contains(<<"181001">>, TableRendering(lookResult.text))

\* As the code has it: the rendering is the one row of the sample record's
\* table_ori and holds neither figure; the figures stand in the reference
\* calculation, which is the record's program.
C14_SampleFiguresInProgram ==
    SampleQueried =>
        /\ SampleIsTopMatch
        /\ TableRendering(lookResult.text) =
              <<"\n", "  * ", "original", ": ", "table", " | ", "format", "\n">>
        /\ ~Contains(<<"206588">>, TableRendering(lookResult.text))
        /\ ~Contains(<<"181001">>, TableRendering(lookResult.text))
        /\ Contains(<<"REFERENCE CALCULATION: ">> \o SampleProgram, lookResult.text)
        /\ Contains(<<"206588">>, SampleProgram)
        /\ Contains(<<"181001">>, SampleProgram)

\* The sample record stands behind another record and is still the top
\* match of its own question.
C14_Witness ==
    /\ SampleQueried
    /\ Len(dataset) = 2
    /\ dataset[2] = SampleRecord
    /\ HasQuestion(dataset[1])
    /\ TopMatch = SampleRecord


(***************************************************************************)
(* C12: loading the corpus never raises and never yields an unusable       *)
(* corpus: when the dataset file is not found, is empty or fails to parse, *)
(* _load_dataset returns exactly the one built-in sample record, and so    *)
(* for every absent, empty or malformed file: an unreadable file, an empty *)
(* JSON array, lines that parse to JSON values that are no objects.        *)
(***************************************************************************)
\* The file holds nothing that could be a corpus of records.
AbsentEmptyOrMalformed(f) ==
    \/ f.kind \in {"missing", "unreadable", "not_utf8"}
    \/ /\ f.kind = "text"
       /\ \/ Strip(f.lines) = <<>>
          \/ \E i \in 1..Len(f.lines) : IsBad(f.lines[i])
          \/ Strip(f.lines) = <<ArrayLine(<<>>)>>
          \/ \E i \in 1..Len(f.lines) : f.lines[i] = ValueLine(NonDictItem)

C12_LoadFallsBackToSample ==
    loadPc = "done" =>
        /\ ~loaded.raised
        /\ loaded.data # <<>>
        /\ AbsentEmptyOrMalformed(file) => loaded.data = _get_sample_data


(***************************************************************************)
(* C15: the calculator returns '14' for '2 + 3 * 4', returns '4' for       *)
(* 'sqrt(16)' (a float that is an integer, shown as a plain integer), and  *)
(* returns the division-by-zero error string for '1/0' and does not raise. *)
(***************************************************************************)
C15_ContractExamples ==
    calcPc = "done" =>
        /\ expression = <<"2", " ", "+", " ", "3", " ", "*", " ", "4">> => calcResult = Returned(<<"1", "4">>)
        /\ expression = <<"s", "q", "r", "t", "(", "1", "6", ")">> => calcResult = Returned(<<"4">>)
        /\ expression = <<"1", "/", "0">> =>
              calcResult = Returned(<<"Error", ": Division by zero.">>)

\* sqrt(16) was handed to eval, which gave the float 4.0, shown as 4.
C15_Witness ==
    /\ calcPc = "done"
    /\ expression = <<"s", "q", "r", "t", "(", "1", "6", ")">>
    /\ evalArg = [reached |-> TRUE, text |-> <<"s", "q", "r", "t", "(", "1", "6", ")">>]
    /\ PyEval(evalArg.text).val = Number("float", 4, 1)
    /\ calcResult = Returned(<<"4">>)

(***************************************************************************)
(* C16: every expression that references a double-underscore name, import, *)
(* exec, eval, open or input is rejected by the calculator with an error   *)
(* string before eval is reached; no such expression is passed to eval.    *)
(***************************************************************************)
\* The expression as written, stripped and in lower case, holds what one of
\* the dangerous patterns describes.
ReferencesForbidden(expr) == IsDangerous(lower(StripText(expr)))

C16_ForbiddenNeverEvaluated ==
    (calcPc = "done" /\ ReferencesForbidden(expression)) =>
        /\ ~evalArg.reached
        /\ ~calcResult.raised
        /\ StartsWith(calcResult.text, <<"Error">>)

(***************************************************************************)
(* C17: the calculator never raises across the tool boundary: for every    *)
(* input, every evaluation failure (bad syntax, unknown name, unsafe       *)
(* token, division by zero, math domain error, any other exception) gives  *)
(* a descriptive string that begins with 'Error', and the call returns a   *)
(* string in all cases.                                                    *)
(***************************************************************************)
\* The call did not come to a value: a check returned before eval, or eval
\* raised.
EvaluationFailed(expr) ==
    \/ ~ReachesEval(Normalize(expr))
    \/ ~PyEval(Normalize(expr)).ok

C17_CalculatorNeverRaises ==
    calcPc = "done" =>
        /\ ~calcResult.raised
        /\ calcResult.text # <<>>
        /\ EvaluationFailed(expression) =>
              /\ StartsWith(calcResult.text, <<"Error">>)
              /\ Len(calcResult.text) >= 2

\* eval raised an exception none of the named handlers takes (TypeError of
\* sqrt without argument), and the call returned the text of the last one.
C17_Witness ==
    /\ calcPc = "done"
    /\ evalArg.reached
    /\ PyEval(evalArg.text).exc = "TypeError"
    /\ ~calcResult.raised
    /\ StartsWith(calcResult.text, <<"Error", " calculating '">>)

(***************************************************************************)
(* Routing after the research stage.                                       *)
(***************************************************************************)
\* The stage the run of s went to after its research stage.
Routed(s) ==
    IF Len(trace[s]) >= 2 \/ pc[s] = "math_expert" THEN "math_expert" ELSE "END"

\* The step in which the research stage of s returns a reply.
ResearchReplyStep(s) ==
    /\ pc[s] = "financial_research_expert"
    /\ trace'[s] # trace[s]
    /\ trace'[s][1].out.kind = "reply"

\* C21: the stage chosen after the research stage depends on the text of
\* the research reply alone: the computation stage exactly when that text
\* contains the marker NEED_MATH_CALCULATION as a case-sensitive substring,
\* END otherwise (an empty reply included), whatever the earlier messages
\* of the history say; two runs with equal reply text are routed alike.
C21_RouteDependsOnReplyOnly ==
    /\ [][\A s \in Sessions :
            ResearchReplyStep(s) =>
                /\ route_next(state'[ThreadId(s)])
                     = IF Contains(Marker, trace'[s][1].out.text)
                       THEN "math_expert" ELSE "END"
                /\ pc'[s] = route_next(state'[ThreadId(s)])]_vars
    /\ [](\A s \in Sessions, t \in Sessions :
            (/\ ResearchReplied(s)
             /\ ResearchReplied(t)
             /\ trace[s][1].out.text = trace[t][1].out.text)
                => Routed(s) = Routed(t))

\* One session asked with the marker in its query and got a reply without
\* it (the empty reply), the other asked without the marker and got a reply
\* with it.
C21_Witness ==
    /\ ResearchReplied("s1")
    /\ Contains(Marker, runInput["s1"][1].content)
    /\ trace["s1"][1].out.text = <<>>
    /\ pc["s1"] = "END"
    /\ Len(trace["s1"]) = 1
    /\ ResearchReplied("s2")
    /\ ~Contains(Marker, runInput["s2"][1].content)
    /\ trace["s2"][1].out.text = <<"ok">> \o Marker \o <<"ok">>
    /\ pc["s2"] = "math_expert"

(***************************************************************************)
(* Ties in the retrieval order.                                            *)
(***************************************************************************)
\* The records of the corpus at positions i < j that both bear a question
\* and score the same against the query.
TiedPair(i, j) ==
    /\ i < j
    /\ HasQuestion(dataset[i])
    /\ HasQuestion(dataset[j])
    /\ ScoreEq(calculate_similarity(user_query, dataset[i].qa.question),
               calculate_similarity(user_query, dataset[j].qa.question))

PositionsOf(item) == { p \in 1..Len(found) : found[p] = item }

\* C22: among records of equal score, find_similar_query keeps the corpus
\* order: when record i precedes record j in the corpus and both score the
\* same, j is returned only if i is, and then i stands before j.
C22_TiesInCorpusOrder ==
    ragPc = "done" =>
        \A i, j \in 1..Len(dataset) :
            TiedPair(i, j) =>
                \A pj \in PositionsOf(dataset[j]) :
                    \E pi \in PositionsOf(dataset[i]) : pi < pj

\* Three records tied at the top and room for two of them: the first two of
\* the corpus come back, in corpus order, and the third is cut.
C22_Witness ==
    /\ ragPc = "done"
    /\ Len(dataset) = 3
    /\ top_k = 2
    /\ TiedPair(1, 2)
    /\ TiedPair(2, 3)
    /\ dataset[1].qa.question # dataset[2].qa.question
    /\ found = <<dataset[1], dataset[2]>>

(***************************************************************************)
(* The record the lookup answers from.                                     *)
(*                                                                         *)
(* The properties of the lookup speak of the best match of the call.  They *)
(* take it from BestMatches, the set that holds the best match when there  *)
(* is one and nothing otherwise, so that the retrieval is worked out once  *)
(* for a state.                                                            *)
(***************************************************************************)
Matches == find_similar_query(dataset, user_query, LookupTopK)

\* The lookup has run on a corpus of records and found at least one match.
Matched ==
    /\ lookPc = "done"
    /\ ~FindRaises(dataset)
    /\ Matches # <<>>

\* The lists of matches of a lookup that has run and found a match: one
\* list or none.
MatchLists ==
    IF lookPc = "done" /\ ~FindRaises(dataset)
    THEN { ms \in {Matches} : ms # <<>> }
    ELSE {}

BestMatches == { ms[1] : ms \in MatchLists }

QueryScore(item) == calculate_similarity(user_query, item.qa.question)

\* The record at position p scores `top`, no record scores higher and none
\* before p scores as high.
HighestFirst(p, top) ==
    \A i \in 1..Len(dataset) :
        HasQuestion(dataset[i]) =>
            \A score \in {QueryScore(dataset[i])} :
                /\ ScoreGe(top, score)
                /\ ScoreEq(top, score) => p <= i

\* The table extract_context_from_item takes from a record.
TableOf(item) == Get(item, "table_ori", Get(item, "table", List(<<>>)))

\* Working on the record raises: joining its narrative text, or taking the
\* length of its table.
RaisesOn(item) ==
    \/ JoinRaises(item, "pre_text")
    \/ JoinRaises(item, "post_text")
    \/ TableRaises(TableOf(item))

\* C23: when at least one record matches, the lookup asks for the top 3
\* matches and answers from the first of them alone, the highest-scoring
\* record (the first in corpus order among ties): its result is the result
\* of the lookup on a corpus that holds that one record only, and, when the
\* record is well-formed, the response block built from that record's
\* answer, program, table and narrative text.
C23_ResponseFromTopMatchOnly ==
    \A ms \in MatchLists :
        /\ Len(ms) <= LookupTopK
        /\ HasQuestion(ms[1])
        /\ \A top \in {QueryScore(ms[1])} :
              \E p \in 1..Len(dataset) : dataset[p] = ms[1] /\ HighestFirst(p, top)
        /\ lookResult = financial_context_lookup(<<ms[1]>>, user_query)
        /\ ~RaisesOn(ms[1]) =>
              lookResult = Returned(Response(extract_context_from_item(ms[1]),
                                             user_query))

\* Three records match, the best of them is the second of the corpus, and
\* the response carries its answer and neither of the other two answers.
C23_Witness ==
    /\ Matched
    /\ Len(dataset) = 3
    /\ Len(Matches) = 3
    /\ Matches[1] = dataset[2]
    /\ Matches[1].qa.question = <<"b", "d">>
    /\ Matches[1].qa.answer = <<"1">>
    /\ Matches[2].qa.question = <<"d">>
    /\ Matches[2].qa.answer = <<"3">>
    /\ Matches[3] = SampleRecord
    /\ Contains(<<"REFERENCE ANSWER: ", "1", " (from dataset)">>, lookResult.text)
    /\ ~Contains(<<"14.1%">>, lookResult.text)
    /\ ~Contains(<<"3">>, lookResult.text)

(***************************************************************************)
(* A malformed best match.                                                 *)
(***************************************************************************)
BestTable == TableOf(Matches[1])

\* The record has a table that is no sequence of rows, or narrative entries
\* that are no strings.
Malformed(item) ==
    \/ JoinRaises(item, "pre_text")
    \/ JoinRaises(item, "post_text")
    \/ IsInt(TableOf(item))

BestMatchRaises == RaisesOn(Matches[1])

ErrorPrefix == <<"Error in financial_context_lookup: ">>

\* C24 as stated: when the best-matching record is malformed, the lookup
\* returns the no-data message, as it does when no record matches.
C24_MalformedGivesNoData ==
    \A best \in BestMatches :
        Malformed(best) => lookResult = Returned(NoSimilarQueries)

\* C24 as amended: when working on the best-matching record raises, the
\* lookup returns the text 'Error in financial_context_lookup: ' followed by
\* the description of the exception, which is not the no-data message; a
\* table that is the number 0 raises nothing and gives the response block
\* with 'No table data available.'; the no-data message is returned exactly
\* when no record matches.
C24_MalformedGivesErrorText ==
    /\ \A best \in BestMatches :
          /\ RaisesOn(best) =>
                /\ ~lookResult.raised
                /\ StartsWith(lookResult.text, ErrorPrefix)
                /\ Len(lookResult.text) > Len(ErrorPrefix)
          /\ (Malformed(best) /\ ~RaisesOn(best)) =>
                /\ StartsWith(lookResult.text, <<"CRITICAL DATA EXTRACTION TASK">>)
                /\ TableRendering(lookResult.text) = <<"No table data available.">>
          /\ lookResult # Returned(NoSimilarQueries)
    /\ (lookPc = "done" /\ ~FindRaises(dataset) /\ MatchLists = {}) =>
          lookResult = Returned(NoSimilarQueries)

\* The best match has a pre_text whose first entry is a number, and the
\* lookup returned the error text of the join.
C24_Witness ==
    /\ Matched
    /\ Len(Matches) >= 2
    /\ JoinRaises(Matches[1], "pre_text")
    /\ lookResult = Returned(ErrorPrefix \o <<"sequence item ", "0",
                                              ": expected str instance, int found">>)

(***************************************************************************)
(* The lines of the formatted table.                                       *)
(***************************************************************************)
YearMappingToken == "\nYEAR MAPPING FROM TABLE HEADERS: "

\* formatted_table as it stands in a response: the table rendering without
\* the year mapping that may follow it.
FormattedPart(text) ==
    LET rendering == TableRendering(text)
    IN  IF \E i \in 1..Len(rendering) : rendering[i] = YearMappingToken
        THEN SubSeq(rendering, 1, IndexOf(YearMappingToken, rendering) - 1)
        ELSE rendering

\* The lines of a text, each without the line end that closes it.
RECURSIVE SplitLines(_, _)
SplitLines(tokens, line) ==
    IF tokens = <<>>
    THEN (IF line = <<>> THEN <<>> ELSE <<line>>)
    ELSE IF Head(tokens) = "\n"
         THEN <<line>> \o SplitLines(Tail(tokens), <<>>)
         ELSE SplitLines(Tail(tokens), Append(line, Head(tokens)))

\* The lines of formatted_table behind the line end that opens it.
TableLines == SplitLines(Tail(FormattedPart(lookResult.text)), <<>>)

\* The record is well-formed enough for a response, and its table is a
\* non-empty list of rows.
ShowsTable(item) ==
    /\ ~RaisesOn(item)
    /\ IsList(TableOf(item))
    /\ Truthy(TableOf(item))

\* The lookup has answered from a record whose table is a non-empty list of
\* rows.
TableShown == Matched /\ ShowsTable(Matches[1])

\* The tables the lookup has rendered row by row: one table or none.
ShownTables == { TableOf(best).list : best \in { b \in BestMatches : ShowsTable(b) } }

\* The non-empty cells of a row behind the first, in order, as texts.
ValueTexts(row) ==
    LET cells == SelectSeq(Tail(row), Truthy)
    IN  [k \in 1..Len(cells) |-> PyStr(cells[k])]

\* 'label: value | value | ...' for row number i.
LabelledLine(i, row) ==
    <<"  * ">>
    \o (IF Truthy(row[1]) THEN PyStr(row[1]) ELSE <<"Row ", ToString(i)>>)
    \o <<": ">> \o Join(" | ", ValueTexts(row))

RECURSIVE IsSubsequence(_, _)
IsSubsequence(a, b) ==
    IF a = <<>> THEN TRUE
    ELSE IF b = <<>> THEN FALSE
    ELSE IF Head(a) = Head(b) THEN IsSubsequence(Tail(a), Tail(b))
    ELSE IsSubsequence(a, Tail(b))

\* The labelled lines of the rows of more than one cell from row i on, in
\* table order; with valuesNeeded, only of the rows that have a non-empty
\* cell behind the first.
RECURSIVE LabelledLinesFrom(_, _, _)
LabelledLinesFrom(i, rows, valuesNeeded) ==
    IF i > Len(rows) THEN <<>>
    ELSE IF Len(rows[i]) > 1 /\ (valuesNeeded => ValueTexts(rows[i]) # <<>>)
         THEN <<LabelledLine(i, rows[i])>> \o LabelledLinesFrom(i + 1, rows, valuesNeeded)
         ELSE LabelledLinesFrom(i + 1, rows, valuesNeeded)

\* The rows of more than one cell whose cells behind the first are all
\* empty.
LabelOnly(rows) ==
    { i \in 1..Len(rows) : Len(rows[i]) > 1 /\ ValueTexts(rows[i]) = <<>> }

LabelOnlyRows == LabelOnly(BestTable.list)

\* C25 as stated: every row of more than one cell is rendered as one line
\* 'label: value | value | ...' of its non-empty cells behind the first,
\* with the first cell or 'Row N' as label, and the lines stand in table
\* order.
C25_EveryWideRowLabelled ==
    \A rows \in ShownTables :
        IsSubsequence(LabelledLinesFrom(1, rows, FALSE), TableLines)

\* C25 as amended: every row of more than one cell that has a non-empty
\* cell behind the first is rendered as that one line, in table order; a
\* row of more than one cell whose cells behind the first are all empty
\* adds no line.
C25_WideRowsWithValuesLabelled ==
    \A rows \in ShownTables :
        \A lines \in {TableLines} :
            /\ IsSubsequence(LabelledLinesFrom(1, rows, TRUE), lines)
            /\ Len(lines) = Len(rows) - Cardinality(LabelOnly(rows))
            /\ \A i \in LabelOnly(rows) :
                  \A n \in 1..Len(lines) :
                      ~StartsWith(lines[n], LabelledLine(i, rows[i]))

\* The table with a header row without label, a row of figures and a row
\* whose values are all empty: the first gets the label 'Row 1', the third
\* no line.
C25_Witness ==
    /\ TableShown
    /\ BestTable = CashTable
    /\ Len(TableLines) = 4
    /\ TableLines[1] = <<"  * ", "Row ", "1", ": ", "2009", " | ", "2008">>
    /\ TableLines[2] = <<"  * ", "net cash", ": ", "206588", " | ", "181001">>
    /\ TableLines[4] = <<"  * ", "Row ", "5", ": ", "7">>
    /\ 3 \in LabelOnlyRows

(***************************************************************************)
(* Rows with one populated cell.                                           *)
(***************************************************************************)
PopulatedCells(row) == { c \in 1..Len(row) : Truthy(row[c]) }

\* The rows that have exactly one populated cell.
OnePopulated(rows) ==
    { i \in 1..Len(rows) : Cardinality(PopulatedCells(rows[i])) = 1 }

TheCell(row) == row[CHOOSE c \in PopulatedCells(row) : TRUE]

\* C26 as stated: a row with exactly one populated cell, be it a row of one
\* cell or a wider row whose other cells are empty, is rendered as the text
\* of that cell alone, and no row of the table is left out of the rendering.
C26_OnePopulatedCellAlone ==
    \A rows \in ShownTables :
        \A lines \in {TableLines} :
            /\ Len(lines) = Len(rows)
            /\ \A i \in OnePopulated(rows) :
                  lines[i] = <<"  * ">> \o PyStr(TheCell(rows[i]))

\* The line at which row i stands when the rows of `skipped` have none.
LineIndex(i, skipped) == i - Cardinality({ j \in skipped : j < i })

\* C26 as amended: a row of at most one cell is rendered as the text of its
\* cell alone (an empty line when the cell is empty or missing); a wider row
\* with exactly one populated cell is rendered as 'Row N: value' when that
\* cell stands behind the first, and is left out when that cell is the
\* first; the rows left out of the rendering are exactly the rows of more
\* than one cell whose cells behind the first are all empty.
C26_OneCellRowAlone ==
    \A rows \in ShownTables :
        \A lines \in {TableLines}, skipped \in {LabelOnly(rows)} :
            /\ Len(lines) = Len(rows) - Cardinality(skipped)
            /\ \A i \in 1..Len(rows) :
                  LET row == rows[i]
                  IN  /\ Len(row) = 0 => lines[LineIndex(i, skipped)] = <<"  * ">>
                      /\ Len(row) = 1 =>
                            lines[LineIndex(i, skipped)]
                                = <<"  * ">> \o (IF Truthy(row[1]) THEN PyStr(row[1])
                                                 ELSE <<>>)
                      /\ (Len(row) > 1 /\ i \in OnePopulated(rows)) =>
                            IF Truthy(row[1])
                            THEN i \in skipped
                            ELSE lines[LineIndex(i, skipped)]
                                    = <<"  * ", "Row ", ToString(i), ": ">>
                                          \o PyStr(TheCell(row))

\* The table has a row of one cell, a wider row with the label alone and a
\* wider row with one value alone: the first is rendered as its cell, the
\* second is left out, the third is rendered under the label 'Row 5'.
C26_Witness ==
    /\ TableShown
    /\ BestTable = CashTable
    /\ OnePopulated(BestTable.list) = {3, 4, 5}
    /\ LabelOnlyRows = {3}
    /\ LineIndex(4, LabelOnlyRows) = 3
    /\ TableLines[3] = <<"  * ", "in millions">>
    /\ TableLines[4] = <<"  * ", "Row ", "5", ": ", "7">>
    /\ \A n \in 1..Len(TableLines) : ~Contains(<<"total">>, TableLines[n])

(***************************************************************************)
(* The year mapping.                                                       *)
(***************************************************************************)
YearTokens == { "2007", "2008", "2009" }

NamesYear(cell) == \E y \in YearTokens : Contains(<<y>>, PyStr(cell))

\* The lookup has answered with a response block.
Responded == Matched /\ ~BestMatchRaises

\* The records the lookup has answered from with a response block: one
\* record or none.
Answered == { best \in BestMatches : ~RaisesOn(best) }

\* The table has a first row, and a cell of it names a year.
FirstRowNamesYear(table) ==
    /\ IsList(table)
    /\ Len(table.list) > 0
    /\ \E c \in 1..Len(table.list[1]) : NamesYear(table.list[1][c])

\* What follows the heading of the year mapping in the table rendering.
YearMapping(text) ==
    LET rendering == TableRendering(text)
    IN  SubSeq(rendering, IndexOf(YearMappingToken, rendering) + 1, Len(rendering))

\* C27: the response holds the year mapping exactly when a cell of the
\* first row of the table contains 2007, 2008 or 2009; the mapping then
\* carries the whole first row as it is, and a year in another row does not
\* bring it about.
C27_YearMappingFromFirstRow ==
    \A best \in Answered :
        \A table \in {TableOf(best)} :
            /\ Contains(<<YearMappingToken>>, lookResult.text)
                  <=> FirstRowNamesYear(table)
            /\ FirstRowNamesYear(table) =>
                  /\ Contains(<<YearMappingToken>>, TableRendering(lookResult.text))
                  /\ YearMapping(lookResult.text) = ListRepr(table.list[1])

\* The first row of the table has the year inside a longer cell, and the
\* mapping shows the row with both of its cells.
C27_Witness ==
    /\ Responded
    /\ BestTable = YearInsideTable
    /\ FirstRowNamesYear(BestTable)
    /\ YearMapping(lookResult.text) =
          <<"[", "'", "item", "'", ", ",
            "'", "december 31, ", "2007", " (restated)", "'", "]">>

(***************************************************************************)
(* Which of the two tables of a record is rendered.                        *)
(***************************************************************************)
NoTable == <<"No table data available.">>

\* formatted_table and year_headers of a table.
RenderingOf(table) == FormattedTable(table) \o YearHeaders(table)

\* C30: the table the lookup renders for a record is the record's
\* table_ori whenever the record has that key, even when it is empty, and
\* the record's table only when the record has no table_ori; for a record
\* with neither the rendering is 'No table data available.'.
C30_TableOriBeforeTable ==
    \A best \in Answered :
        \A rendering \in {TableRendering(lookResult.text)} :
            /\ "table_ori" \in DOMAIN best => rendering = RenderingOf(best.table_ori)
            /\ ("table_ori" \in DOMAIN best /\ ~Truthy(best.table_ori)) =>
                  rendering = NoTable
            /\ ("table_ori" \notin DOMAIN best /\ "table" \in DOMAIN best) =>
                  rendering = RenderingOf(best.table)
            /\ ("table_ori" \notin DOMAIN best /\ "table" \notin DOMAIN best) =>
                  rendering = NoTable

\* The best match has an empty table_ori and a table of five rows, and the
\* lookup shows no table.
C30_Witness ==
    /\ Responded
    /\ Len(Matches) = 3
    /\ "table_ori" \in DOMAIN Matches[1]
    /\ Matches[1].table_ori = List(<<>>)
    /\ Matches[1].table = CashTable
    /\ "table_ori" \notin DOMAIN Matches[2]
    /\ TableRendering(lookResult.text) = NoTable

(***************************************************************************)
(* The corpus is only read.                                                *)
(***************************************************************************)
\* C29: no call of find_similar_query or of financial_context_lookup (which
\* calls extract_context_from_item), in whatever order and however often
\* the calls of the sessions follow one another, changes the length of the
\* dataset, the order of its records or what a record holds.
C29_CorpusReadOnly ==
    [][/\ Len(dataset') = Len(dataset)
       /\ \A i \in 1..Len(dataset) : dataset'[i] = dataset[i]]_vars

\* Both tools have returned on a corpus of three records; the matches came
\* back in another order than the corpus has, which still begins with a
\* record without question and has its best match last.
C29_Witness ==
    /\ ragPc = "done"
    /\ lookPc = "done"
    /\ Len(dataset) = 3
    /\ ~HasQuestion(dataset[1])
    /\ Len(found) = 2
    /\ found[1] = dataset[3]
    /\ found[2] = dataset[2]
    /\ StartsWith(lookResult.text, <<"CRITICAL DATA EXTRACTION TASK">>)

(***************************************************************************)
(* The functions and constants of the calculator's contract.               *)
(***************************************************************************)
\* The text of a number: digits, with a sign and a decimal point at most.
IsNumericText(text) ==
    /\ text # <<>>
    /\ \A i \in 1..Len(text) : IsDigitChar(text[i]) \/ text[i] \in {".", "-"}
    /\ \E i \in 1..Len(text) : IsDigitChar(text[i])

Constants == { <<"p", "i">>, <<"e">> }

\* C28 as stated: a call of each function the contract names, with
\* arguments in its domain, and each of the constants pi and e is handed to
\* eval and gives the text of a number, not an error text; for a call that
\* number is the value of the call as written, and the normalisation hands
\* the function name and the numerals to eval as they were written (a
\* numeral with an exponent in lower case).
C28_ContractFunctionsEvaluated ==
    calcPc = "done" =>
        /\ expression \in ContractCalls =>
              /\ evalArg.reached
              /\ ~StartsWith(calcResult.text, <<"Error">>)
              /\ IsNumericText(calcResult.text)
        /\ expression \in ContractCalls \ Constants =>
              /\ evalArg.text = expression
              /\ \A r \in {PyEval(expression)} :
                    r.ok /\ calcResult = Returned(format_result(r.val))
        /\ expression = <<"1", "E", "5">> => evalArg.text = <<"1", "e", "5">>

====
